---- MODULE Spec2Model ----
(***************************************************************************)
(* Code-resolution and compliance-decision engine of softlinkServer        *)
(* (src/usa.js, the USA import variant, and src/index.js, the export       *)
(* variant).  Strings are sequences of one-character strings, so that      *)
(* toLowerCase, trim, split, includes, startsWith and the regular          *)
(* expression of extractHSCodes are computed character by character.  A    *)
(* JavaScript object is the sequence of its own properties [k, v] in the   *)
(* order Object.keys lists them.                                           *)
(***************************************************************************)
EXTENDS Integers, Sequences, FiniteSets, TLC

VARIABLES
    deployment,     \* "usa" (src/usa.js) or "index" (src/index.js)
    pdfText,        \* the document text handed to extractHSCodes / the segmenter
    lastIndex,      \* hsCodeRegex.lastIndex (0-based offset into pdfText)
    pc,             \* position in extractHSCodes: "loop", "returned"
    hsCodesData,    \* the registry object: code -> [description, policy]
    itemToHsMap,    \* the term index object: term -> code
    triples,        \* history: the matches processed, in order: [index, code, description, policy]
    reply,          \* the last lookup answered: [op, arg, env, ret]
    textChunks,     \* the passages produced by the segmentation step
    pdfVersion,     \* which document is stored at PDF_PATH (0: no server in this specification)
    disk,           \* EMBEDDINGS_PATH, ITEM_TO_HS_PATH and the chunk_<id>.json files of CHUNKS_DIR
    embeddingsDatabase, \* the module variable embeddingsDatabase: [chunks, hsCodesData, itemToHsMap]
    calls,          \* the calls of generatePdfEmbeddings, by caller: initServer or a regenerate request
    results,        \* extractHSCodesWithAI: what processInBatches returned, one result per chunk
    workers         \* processInBatches: the worker of each item, [state, value, at]

vars == <<deployment, pdfText, lastIndex, pc, hsCodesData, itemToHsMap, triples, reply, textChunks,
          pdfVersion, disk, embeddingsDatabase, calls, results, workers>>

serverVars == <<pdfVersion, disk, embeddingsDatabase, calls>>

\* JavaScript null / undefined (no string of the model is this sequence).
Null == <<"null">>

\* No lookup answered yet.  A lookup changes nothing but reply, so a behaviour
\* records one lookup against the snapshot it was answered from.
NoReply == [op |-> "none", arg |-> Null, env |-> Null, ret |-> Null]

\* The specifications of the pure functions run no server.
ServerOff ==
    /\ pdfVersion = 0
    /\ disk = <<>>
    /\ embeddingsDatabase = <<>>
    /\ calls = <<>>
    /\ results = <<>>
    /\ workers = <<>>

(***************************************************************************)
(* String primitives                                                       *)
(***************************************************************************)
Uppers == <<"A", "B", "C", "D", "E", "F", "G", "H", "I", "J", "K", "L", "M", "N", "O", "P", "Q", "R", "S", "T", "U", "V", "W", "X", "Y", "Z">>

Lowers == <<"a", "b", "c", "d", "e", "f", "g", "h", "i", "j", "k", "l", "m", "n", "o", "p", "q", "r", "s", "t", "u", "v", "w", "x", "y", "z">>

Digits == <<"0", "1", "2", "3", "4", "5", "6", "7", "8", "9">>

\* The characters \s and String.prototype.trim treat as white space (those the model uses).
WhiteSpace == {" ", "\n", "\t"}

LowerChar(c) ==
    IF \E i \in 1..26 : Uppers[i] = c
    THEN Lowers[CHOOSE i \in 1..26 : Uppers[i] = c]
    ELSE c

\* s.toLowerCase()
ToLowerCase(s) == [i \in 1..Len(s) |-> LowerChar(s[i])]

\* s.trim()
Trim(s) ==
    LET nonWs == {i \in 1..Len(s) : s[i] \notin WhiteSpace}
    IN  IF nonWs = {} THEN <<>>
        ELSE SubSeq(s, CHOOSE i \in nonWs : \A j \in nonWs : i <= j,
                       CHOOSE i \in nonWs : \A j \in nonWs : i >= j)

\* s.startsWith(p)
StartsWith(s, p) == Len(p) <= Len(s) /\ SubSeq(s, 1, Len(p)) = p

\* s.includes(sub)
Includes(s, sub) ==
    \E i \in 1..(Len(s) - Len(sub) + 1) : SubSeq(s, i, i + Len(sub) - 1) = sub

\* s.substring(0, n)
Substring0(s, n) == SubSeq(s, 1, IF n < Len(s) THEN n ELSE Len(s))

\* s.split(/[...]/) on a class of one-character separators: the pieces between them.
RECURSIVE SplitChars(_, _)
SplitChars(s, seps) ==
    LET hits == {i \in 1..Len(s) : s[i] \in seps}
    IN  IF hits = {} THEN <<s>>
        ELSE LET i == CHOOSE h \in hits : \A g \in hits : h <= g
             IN  <<SubSeq(s, 1, i - 1)>> \o SplitChars(SubSeq(s, i + 1, Len(s)), seps)

\* s.split(sep) on a non-empty separator string, scanning left to right.
RECURSIVE SplitStr(_, _)
SplitStr(s, sep) ==
    LET hits == {i \in 1..(Len(s) - Len(sep) + 1) : SubSeq(s, i, i + Len(sep) - 1) = sep}
    IN  IF hits = {} THEN <<s>>
        ELSE LET i == CHOOSE h \in hits : \A g \in hits : h <= g
             IN  <<SubSeq(s, 1, i - 1)>> \o SplitStr(SubSeq(s, i + Len(sep), Len(s)), sep)

IsDigit(c) == \E i \in 1..10 : Digits[i] = c

DigitVal(c) == (CHOOSE i \in 1..10 : Digits[i] = c) - 1

\* a < b for two digit strings of the same length
RECURSIVE LexLess(_, _)
LexLess(a, b) ==
    IF a = <<>> THEN FALSE
    ELSE IF DigitVal(a[1]) # DigitVal(b[1]) THEN DigitVal(a[1]) < DigitVal(b[1])
    ELSE LexLess(Tail(a), Tail(b))

\* a < b as numbers, for canonical numeric strings (no leading zero)
NumLess(a, b) == Len(a) < Len(b) \/ (Len(a) = Len(b) /\ LexLess(a, b))

(***************************************************************************)
(* JavaScript objects used as maps: own property order                     *)
(***************************************************************************)
\* 2^32 - 2, the largest array index
MaxArrayIndex == <<"4", "2", "9", "4", "9", "6", "7", "2", "9", "4">>

\* An integer-like key ("array index"): a canonical numeric string below 2^32 - 1.
\* Object.keys lists these first, in ascending numeric order, then the other
\* string keys in the order they were first assigned.
IsArrayIndex(k) ==
    /\ Len(k) >= 1
    /\ \A i \in 1..Len(k) : IsDigit(k[i])
    /\ (k[1] # "0" \/ Len(k) = 1)
    /\ (NumLess(k, MaxArrayIndex) \/ k = MaxArrayIndex)

\* Object.keys(o)
ObjKeys(o) == [i \in 1..Len(o) |-> o[i].k]

\* k is an own property of o
ObjHas(o, k) == \E i \in 1..Len(o) : o[i].k = k

\* o[k] for an own property
ObjGet(o, k) == o[CHOOSE i \in 1..Len(o) : o[i].k = k].v

\* o[k] = v, always appending a new key (a map that keeps pure insertion order)
ObjSetAppend(o, k, v) ==
    IF ObjHas(o, k)
    THEN [i \in 1..Len(o) |-> IF o[i].k = k THEN [k |-> k, v |-> v] ELSE o[i]]
    ELSE Append(o, [k |-> k, v |-> v])

\* o[k] = v that keeps the first value of an existing key (first-write-wins)
ObjSetKeepFirst(o, k, v) ==
    IF ObjHas(o, k) THEN o ELSE Append(o, [k |-> k, v |-> v])

\* o[k] = v
ObjSet(o, k, v) ==
    IF ObjHas(o, k)
    THEN [i \in 1..Len(o) |-> IF o[i].k = k THEN [k |-> k, v |-> v] ELSE o[i]]
    ELSE IF IsArrayIndex(k)
    THEN LET before == Cardinality({i \in 1..Len(o) :
                          IsArrayIndex(o[i].k) /\ NumLess(o[i].k, k)})
         IN  SubSeq(o, 1, before) \o <<[k |-> k, v |-> v]>> \o SubSeq(o, before + 1, Len(o))
    ELSE Append(o, [k |-> k, v |-> v])

(***************************************************************************)
(* extractHSCodes: the body of the match loop                              *)
(***************************************************************************)
\* The separators with the blank added: a splitter that also cuts on words
TermSeparatorsAndBlank == {",", ";", "/", " "}

\* The separators of description.split(/[,;\/]/)
TermSeparators == {",", ";", "/"}

\* item.length > MinTermLength keeps a sub-term
MinTermLength == 3

\* description.split(/[,;\/]/).map(item => item.trim().toLowerCase())
SubTerms(description) ==
    LET parts == SplitChars(description, TermSeparators)
    IN  [i \in 1..Len(parts) |-> ToLowerCase(Trim(parts[i]))]

\* items.forEach(item => { if (item.length > 3) itemToHsMap[item] = hsCode })
RECURSIVE AddItems(_, _, _)
AddItems(map, items, hsCode) ==
    IF items = <<>> THEN map
    ELSE AddItems(IF Len(Head(items)) > MinTermLength
                  THEN ObjSet(map, Head(items), hsCode) ELSE map,
                  Tail(items), hsCode)

\* a registry that is never written
UpsertRegistrySkips(data, hsCode, description, policy) == data

\* hsCodesData[hsCode] = { description, policy }
UpsertRegistry(data, hsCode, description, policy) ==
    ObjSet(data, hsCode, [description |-> description, policy |-> policy])

\* the sub-terms, filtered by length and without the full description
UpsertTermsNoFull(map, hsCode, description) ==
    AddItems(map, SubTerms(description), hsCode)

\* the sub-terms, then itemToHsMap[description.toLowerCase()] = hsCode
UpsertTerms(map, hsCode, description) ==
    ObjSet(AddItems(map, SubTerms(description), hsCode), ToLowerCase(description), hsCode)

(***************************************************************************)
(* checkHSCodeCompliance                                                   *)
(***************************************************************************)
Deployments == {"usa", "index"}

\* the literal the lower-cased policy is compared with: 'allowed' / 'free'
PermittedLower(d) ==
    IF d = "usa" THEN <<"a", "l", "l", "o", "w", "e", "d">> ELSE <<"f", "r", "e", "e">>

\* the policy a chapter-level permitted verdict carries: 'Allowed' / 'Free'
PermittedLabel(d) ==
    IF d = "usa" THEN <<"A", "l", "l", "o", "w", "e", "d">> ELSE <<"F", "r", "e", "e">>

\* policy === 'allowed', without lower-casing first
IsPermittedCaseSensitive(d, policy) == policy = PermittedLower(d)

\* policy.toLowerCase() === 'allowed'
IsPermitted(d, policy) == ToLowerCase(policy) = PermittedLower(d)

\* `Falls under chapter ${chapter} which has some|no allowed|free categories`
ChapterDescription(d, chapter, some) ==
    <<"Falls under chapter ">> \o chapter
        \o <<IF some THEN " which has some " ELSE " which has no ">>
        \o <<IF d = "usa" THEN "allowed categories" ELSE "free categories">>

\* the fixed message of the catch branch
TemplatedReason(d, hsCode) ==
    <<IF d = "usa" THEN "The HTS Code " ELSE "The HS Code ">> \o hsCode
        \o <<IF d = "usa"
             THEN " was not found in the USA import regulations. Please verify the code and try again."
             ELSE " was not found in the export compliance regulations. Please verify the code and try again.">>

\* the prefix length of hsCode.substring(0, 4)
ChapterLength == 4

\* the prefix length of hsCode.substring(0, 2)
TwoDigitLength == 2

\* Object.keys(hsCodesData).filter(code => code.startsWith(chapter))
MatchingCodesChapterOnly(data, hsCode) ==
    LET chapter == Substring0(hsCode, ChapterLength)
        Shares(code) == StartsWith(code, chapter)
    IN  IF Len(hsCode) >= ChapterLength THEN SelectSeq(ObjKeys(data), Shares) ELSE <<>>

\* Object.keys(hsCodesData).filter(code => code.startsWith(chapter) || code.startsWith(twoDigitChapter))
\* (empty when hsCode.length < 4: the chapter tier is skipped)
MatchingCodes(data, hsCode) ==
    LET chapter == Substring0(hsCode, ChapterLength)
        twoDigitChapter == Substring0(hsCode, TwoDigitLength)
        Shares(code) == StartsWith(code, chapter) \/ StartsWith(code, twoDigitChapter)
    IN  IF Len(hsCode) >= ChapterLength THEN SelectSeq(ObjKeys(data), Shares) ELSE <<>>

\* The verdict, all fields present (Null where the code sets none).  modelCalls counts
\* the calls of model.generateContent; completion is what that call does:
\* [ok |-> TRUE, text |-> t] or [ok |-> FALSE] (it throws).
Verdict(exists, allowed, policy, description, reason, modelCalls) ==
    [exists |-> exists, allowed |-> allowed, policy |-> policy,
     description |-> description, reason |-> reason, modelCalls |-> modelCalls,
     threw |-> FALSE]

\* the chapter tier (lines 492-518) and the explanation tier (lines 520-543)
ChapterOrExplain(hsCode, data, d, completion) ==
    LET matchingCodes == MatchingCodes(data, hsCode)
        policies == [i \in 1..Len(matchingCodes) |-> ObjGet(data, matchingCodes[i]).policy]
    IN  IF Len(matchingCodes) > 0
        THEN IF \E i \in 1..Len(policies) : IsPermitted(d, policies[i])
             THEN Verdict(TRUE, TRUE, PermittedLabel(d),
                          ChapterDescription(d, Substring0(hsCode, ChapterLength), TRUE), Null, 0)
             ELSE Verdict(TRUE, FALSE, policies[1],
                          ChapterDescription(d, Substring0(hsCode, ChapterLength), FALSE), Null, 0)
        ELSE IF completion.ok
             THEN Verdict(FALSE, FALSE, Null, Null, completion.text, 1)
             ELSE Verdict(FALSE, FALSE, Null, Null, TemplatedReason(d, hsCode), 1)

\* a variant that lets the chapter tier decide before the exact hit
CheckChapterFirst(hsCode, data, d, completion) ==
    IF Len(MatchingCodes(data, hsCode)) > 0 \/ ~ObjHas(data, hsCode)
    THEN ChapterOrExplain(hsCode, data, d, completion)
    ELSE Verdict(TRUE, IsPermitted(d, ObjGet(data, hsCode).policy),
                 ObjGet(data, hsCode).policy, ObjGet(data, hsCode).description, Null, 0)

\* a variant whose catch branch rethrows the collaborator's failure
CheckRethrow(hsCode, data, d, completion) ==
    IF ObjHas(data, hsCode)
    THEN Verdict(TRUE, IsPermitted(d, ObjGet(data, hsCode).policy),
                 ObjGet(data, hsCode).policy, ObjGet(data, hsCode).description, Null, 0)
    ELSE IF Len(MatchingCodes(data, hsCode)) > 0 \/ completion.ok
    THEN ChapterOrExplain(hsCode, data, d, completion)
    ELSE [Verdict(FALSE, FALSE, Null, Null, Null, 1) EXCEPT !.threw = TRUE]

\* checkHSCodeCompliance(hsCode, embeddingsDatabase)
CheckHSCodeCompliance(hsCode, data, d, completion) ==
    IF ObjHas(data, hsCode)
    THEN LET hsData == ObjGet(data, hsCode)
         IN  Verdict(TRUE, IsPermitted(d, hsData.policy), hsData.policy,
                     hsData.description, Null, 0)
    ELSE ChapterOrExplain(hsCode, data, d, completion)

(***************************************************************************)
(* findHSCodeByItemName                                                    *)
(***************************************************************************)
\* key.length > MinContainedKeyLength lets a key match inside the item name
MinContainedKeyLength == 5

\* Array.prototype.find: the first element of keys among the positions hits that
\* satisfy the test, or Null (undefined)
FindFirst(keys, hits) ==
    IF hits = {} THEN Null
    ELSE keys[CHOOSE i \in hits : \A j \in hits : i <= j]

\* a variant that tries the forward containment tier before the exact key
FindContainmentFirst(itemName, map) ==
    LET normalizedItemName == Trim(ToLowerCase(itemName))
        itemKeys == ObjKeys(map)
        containsMatch == FindFirst(itemKeys,
            {i \in 1..Len(itemKeys) : Includes(itemKeys[i], normalizedItemName)})
        isContainedMatch == FindFirst(itemKeys,
            {i \in 1..Len(itemKeys) : Includes(normalizedItemName, itemKeys[i])
                                         /\ Len(itemKeys[i]) > MinContainedKeyLength})
    IN  IF containsMatch # Null /\ containsMatch # <<>>
        THEN ObjGet(map, containsMatch)
        ELSE IF ObjHas(map, normalizedItemName) /\ ObjGet(map, normalizedItemName) # <<>>
        THEN ObjGet(map, normalizedItemName)
        ELSE IF isContainedMatch # Null /\ isContainedMatch # <<>>
        THEN ObjGet(map, isContainedMatch)
        ELSE Null

\* findHSCodeByItemName(itemName, itemToHsMap)
FindHSCodeByItemName(itemName, map) ==
    LET normalizedItemName == Trim(ToLowerCase(itemName))
        itemKeys == ObjKeys(map)
        containsMatch == FindFirst(itemKeys,
            {i \in 1..Len(itemKeys) : Includes(itemKeys[i], normalizedItemName)})
        isContainedMatch == FindFirst(itemKeys,
            {i \in 1..Len(itemKeys) : Includes(normalizedItemName, itemKeys[i])
                                         /\ Len(itemKeys[i]) > MinContainedKeyLength})
    IN  IF ObjHas(map, normalizedItemName) /\ ObjGet(map, normalizedItemName) # <<>>
        THEN ObjGet(map, normalizedItemName)
        ELSE IF containsMatch # Null /\ containsMatch # <<>>
        THEN ObjGet(map, containsMatch)
        ELSE IF isContainedMatch # Null /\ isContainedMatch # <<>>
        THEN ObjGet(map, isContainedMatch)
        ELSE Null

(***************************************************************************)
(* State machine: the registry and the term index are built by the loop    *)
(* of extractHSCodes, one matched triple per step, and are then served to  *)
(* the lookups.                                                            *)
(***************************************************************************)
\* the number of triples one document holds
MaxTriples == 2

\* \d{8,10} in usa.js, \d{8} in index.js
MinCodeDigits == 8

MaxCodeDigitsUsa == 10

MaxCodeDigitsIndex == 8

MaxCodeDigits(d) == IF d = "usa" THEN MaxCodeDigitsUsa ELSE MaxCodeDigitsIndex

\* The loop body of extractHSCodes for one match (match.index, match[1], match[2],
\* match[3]).
LoopBody(index, m1, m2, m3) ==
    LET description == Trim(m2)
    IN  /\ hsCodesData' = UpsertRegistry(hsCodesData, m1, description, m3)
        /\ itemToHsMap' = UpsertTerms(itemToHsMap, m1, description)
        /\ triples' = Append(triples, [index |-> index, code |-> m1,
                                       description |-> description, policy |-> m3])

\* extractHSCodes returns: the registry and the term index are complete.
ExtractReturn ==
    /\ pc = "loop"
    /\ pc' = "returned"
    /\ UNCHANGED <<deployment, pdfText, lastIndex, hsCodesData, itemToHsMap, triples, reply, textChunks, pdfVersion, disk, embeddingsDatabase, calls, results, workers>>

InitEmpty ==
    /\ deployment \in Deployments
    /\ pdfText = <<>>
    /\ lastIndex = 0
    /\ pc = "loop"
    /\ hsCodesData = <<>>
    /\ itemToHsMap = <<>>
    /\ triples = <<>>
    /\ reply = NoReply
    /\ textChunks = <<>>
    /\ ServerOff

(***************************************************************************)
(* Compliance decisions over registries of sample codes                    *)
(***************************************************************************)
\* Codes a document may hold: two 8-digit codes of chapter 8471/8472 (integer-like
\* keys), a 10-digit code above 2^32 and a code with a leading zero (string keys),
\* and a 10-digit integer-like code of another chapter.
SampleCodes ==
    { <<"8", "4", "7", "2", "0", "0", "0", "0">>,
      <<"8", "4", "7", "1", "0", "0", "0", "0">>,
      <<"8", "4", "7", "1", "3", "0", "0", "0", "0", "0">>,
      <<"0", "1", "0", "1", "2", "1", "0", "0">>,
      <<"1", "2", "3", "4", "5", "6", "7", "8", "9", "0">> }

CodesOf(d) == {c \in SampleCodes : Len(c) >= MinCodeDigits /\ Len(c) <= MaxCodeDigits(d)}

\* The keyword as it stands in the text (the regex is case-insensitive).
PoliciesOf(d) ==
    IF d = "usa"
    THEN { <<"A", "l", "l", "o", "w", "e", "d">>, <<"A", "L", "L", "O", "W", "E", "D">>,
           <<"R", "e", "s", "t", "r", "i", "c", "t", "e", "d">>,
           <<"P", "r", "o", "h", "i", "b", "i", "t", "e", "d">> }
    ELSE { <<"F", "r", "e", "e">>, <<"f", "r", "e", "e">>,
           <<"R", "e", "s", "t", "r", "i", "c", "t", "e", "d">>,
           <<"N", "o", "t", " ", "P", "e", "r", "m", "i", "t", "t", "e", "d">> }

\* Codes asked about: the sample codes, codes that share only a chapter or a
\* two-digit prefix with them, short codes, and a code that shares nothing.
QueryCodes ==
    SampleCodes \cup
    { <<"8", "4", "7", "1", "9", "9", "9", "9">>,
      <<"8", "4", "7", "1", "9", "9", "9", "9", "9", "9">>,
      <<"8", "4", "9", "9">>,
      <<"8", "4">>,
      <<"0", "1", "0", "1">>,
      <<"0", "0", "0", "0", "0", "0", "0", "0", "0", "0">> }

\* What model.generateContent does: it answers with a text, or it throws.
Completions == { [ok |-> TRUE, text |-> <<"generated reason">>], [ok |-> FALSE, text |-> Null] }

ComplyDescription == <<"L", "a", "p", "t", "o", "p", "s">>

ExtractStepComply ==
    /\ pc = "loop"
    /\ Len(triples) < MaxTriples
    /\ \E m1 \in CodesOf(deployment), m3 \in PoliciesOf(deployment) :
           LoopBody(0, m1, ComplyDescription, m3)
    /\ UNCHANGED <<deployment, pdfText, lastIndex, pc, reply, textChunks, pdfVersion, disk, embeddingsDatabase, calls, results, workers>>

\* /api/check-...-compliance with an hsCode: the call of checkHSCodeCompliance
CheckCompliance ==
    /\ pc = "returned"
    /\ reply = NoReply
    /\ \E hsCode \in QueryCodes, completion \in Completions :
           reply' = [op |-> "check", arg |-> hsCode, env |-> completion,
                     ret |-> CheckHSCodeCompliance(hsCode, hsCodesData, deployment, completion)]
    /\ UNCHANGED <<deployment, pdfText, lastIndex, pc, hsCodesData, itemToHsMap, triples, textChunks, pdfVersion, disk, embeddingsDatabase, calls, results, workers>>

NextComply == ExtractStepComply \/ ExtractReturn \/ CheckCompliance

SpecComply == InitEmpty /\ [][NextComply]_vars

(***************************************************************************)
(* Name resolution over term indexes of sample descriptions                *)
(***************************************************************************)
\* the longest item name of the exhaustive part of the names asked about
MaxNameLen == 5

SampleDescriptions ==
    { <<"a", "b", "a", "b", ",", " ", "b", "a">>,
      <<"A", "B">>,
      <<"b", "a", "b", "a", "b", "a">>,
      <<"a", "b", "b", "a", "/", "b", "a", "b", "a", "b">>,
      <<"b", "b", ";", "A", "b", "a", "b">> }

ResolveCodes ==
    { <<"8", "4", "7", "2", "0", "0", "0", "0">>, <<"8", "4", "7", "1", "0", "0", "0", "0">> }

ResolvePolicy == <<"R", "e", "s", "t", "r", "i", "c", "t", "e", "d">>

\* every non-empty name over {a, b} up to MaxNameLen, longer names that contain
\* a key, and names that need lower-casing and trimming
SeqsUpTo(S, n) == UNION {[1..k -> S] : k \in 1..n}

ItemNames ==
    SeqsUpTo({"a", "b"}, MaxNameLen) \cup
    { <<"a", "b", "a", "b", "a", "b">>, <<"b", "a", "b", "a", "b", "a">>,
      <<"a", "b", "a", "b", "a", "b", "a">>, <<"b", "b", "a", "b", "a", "b", "a">>,
      <<"b", "a", "b", "a", "b", "b", "b">>, <<"a", "b", "b", "a", "b", "a", "b", "a", "b">>,
      <<" ", "A", "b", " ">>, <<"B", "a", "B", "a", "B", "a", "b", " ">>, <<" ">> }

ExtractStepResolve ==
    /\ pc = "loop"
    /\ Len(triples) < MaxTriples
    /\ \E m1 \in ResolveCodes, m2 \in SampleDescriptions : LoopBody(0, m1, m2, ResolvePolicy)
    /\ UNCHANGED <<deployment, pdfText, lastIndex, pc, reply, textChunks, pdfVersion, disk, embeddingsDatabase, calls, results, workers>>

\* /api/find-hs-code: the call of findHSCodeByItemName
FindHSCode ==
    /\ pc = "returned"
    /\ reply = NoReply
    /\ \E itemName \in ItemNames :
           reply' = [op |-> "find", arg |-> itemName, env |-> Null,
                     ret |-> FindHSCodeByItemName(itemName, itemToHsMap)]
    /\ UNCHANGED <<deployment, pdfText, lastIndex, pc, hsCodesData, itemToHsMap, triples, textChunks, pdfVersion, disk, embeddingsDatabase, calls, results, workers>>

NextResolve == ExtractStepResolve \/ ExtractReturn \/ FindHSCode

SpecResolve == InitEmpty /\ [][NextResolve]_vars

(***************************************************************************)
(* Claims about checkHSCodeCompliance (SpecComply)                         *)
(***************************************************************************)
\* a equals b ignoring case
EqualsIgnoreCase(a, b) ==
    Len(a) = Len(b) /\ \A i \in 1..Len(a) : LowerChar(a[i]) = LowerChar(b[i])

RegistryCodes == {hsCodesData[i].k : i \in 1..Len(hsCodesData)}

RecordOf(code) == hsCodesData[CHOOSE i \in 1..Len(hsCodesData) : hsCodesData[i].k = code].v

\* code starts with the first n characters of hsCode
SharesPrefix(code, hsCode, n) ==
    LET m == IF n < Len(hsCode) THEN n ELSE Len(hsCode)
    IN  Len(code) >= m /\ \A i \in 1..m : code[i] = hsCode[i]

\* the registry codes that share the 4-digit or the 2-digit prefix of hsCode
Sharing(hsCode) ==
    {code \in RegistryCodes : SharesPrefix(code, hsCode, 4) \/ SharesPrefix(code, hsCode, 2)}

PermittedCodes == {code \in RegistryCodes : EqualsIgnoreCase(RecordOf(code).policy, PermittedLabel(deployment))}

Checked == reply.op = "check"

\* chapter inference applies to the code asked about
ChapterApplies == Len(reply.arg) >= 4 /\ Sharing(reply.arg) # {}

\* C1: for a code that is a key of the registry, the verdict is exists=true with
\* policy and description copied from the code's record and allowed=true exactly
\* when the record's policy equals the permitted label ignoring case, whatever the
\* other codes of the same chapter would say.
C1_ExactHitDecides ==
    (Checked /\ reply.arg \in RegistryCodes) =>
        /\ reply.ret.exists
        /\ reply.ret.policy = RecordOf(reply.arg).policy
        /\ reply.ret.description = RecordOf(reply.arg).description
        /\ reply.ret.allowed
              = EqualsIgnoreCase(RecordOf(reply.arg).policy, PermittedLabel(deployment))
        /\ reply.ret.modelCalls = 0

\* a key whose own policy is not permitted while another code sharing its prefix is
C1_Witness ==
    /\ Checked
    /\ reply.arg \in RegistryCodes
    /\ ~reply.ret.allowed
    /\ \E other \in Sharing(reply.arg) \cap PermittedCodes : other # reply.arg

\* C2: for a code that is no key and has length >= 4, if some registry code sharing
\* its 4-digit or 2-digit prefix has the permitted policy, the verdict is
\* exists=true, allowed=true, policy the permitted label, a description containing
\* the 4-digit prefix, and the text-completion collaborator is not called.
C2_ChapterPermitted ==
    (Checked /\ reply.arg \notin RegistryCodes /\ Len(reply.arg) >= 4
        /\ Sharing(reply.arg) \cap PermittedCodes # {}) =>
        /\ reply.ret.exists
        /\ reply.ret.allowed
        /\ reply.ret.policy = PermittedLabel(deployment)
        /\ Includes(reply.ret.description, SubSeq(reply.arg, 1, 4))
        /\ reply.ret.modelCalls = 0

\* the permitted code shares only the 2-digit prefix, and its policy is spelled in
\* another case than the label
C2_Witness ==
    /\ Checked
    /\ reply.arg \notin RegistryCodes
    /\ Len(reply.arg) >= 4
    /\ Sharing(reply.arg) \cap PermittedCodes # {}
    /\ \A code \in PermittedCodes :
           /\ ~SharesPrefix(code, reply.arg, 4)
           /\ RecordOf(code).policy # PermittedLabel(deployment)
    /\ reply.ret.allowed

\* the verdict was decided by chapter inference: its description names the
\* 4-digit chapter of the code asked about
DecidedByChapter ==
    /\ Checked
    /\ Len(reply.arg) >= ChapterLength
    /\ reply.ret.description
           = ChapterDescription(deployment, Substring0(reply.arg, ChapterLength), reply.ret.allowed)

\* the registry codes that begin with the 4-digit chapter of hsCode
InChapter(hsCode) == {code \in RegistryCodes : SharesPrefix(code, hsCode, ChapterLength)}

\* C27: when the verdict is decided by chapter inference and its description
\* names the code's 4-digit chapter, at least one registry code starts with that
\* 4-digit prefix, and for allowed=true at least one registry code with that
\* prefix has the permitted policy.
C27_ChapterNamedHasCodes ==
    DecidedByChapter =>
        /\ InChapter(reply.arg) # {}
        /\ reply.ret.allowed => InChapter(reply.arg) \cap PermittedCodes # {}

\* the verdict names a chapter of which the registry holds no code: the codes
\* that matched share the two-digit prefix only
C27_TwoDigitOnly ==
    /\ DecidedByChapter
    /\ reply.ret.allowed
    /\ InChapter(reply.arg) = {}
    /\ Sharing(reply.arg) \cap PermittedCodes # {}

\* the verdict is allowed=true and the chapter named holds codes, none permitted
C27_ChapterNotPermitted ==
    /\ DecidedByChapter
    /\ reply.ret.allowed
    /\ InChapter(reply.arg) # {}
    /\ InChapter(reply.arg) \cap PermittedCodes = {}

\* the position of a code's first insertion during extraction
FirstInserted(code) == CHOOSE i \in 1..Len(triples) :
    triples[i].code = code /\ \A j \in 1..(i - 1) : triples[j].code # code

\* c1 is listed before c2 by Object.keys: integer-like codes first, in ascending
\* numeric order, then the other codes in the order of their first insertion
ListedBefore(c1, c2) ==
    \/ IsArrayIndex(c1) /\ ~IsArrayIndex(c2)
    \/ IsArrayIndex(c1) /\ IsArrayIndex(c2) /\ NumLess(c1, c2)
    \/ ~IsArrayIndex(c1) /\ ~IsArrayIndex(c2) /\ FirstInserted(c1) < FirstInserted(c2)

NoneSharingPermitted ==
    /\ Checked
    /\ reply.arg \notin RegistryCodes
    /\ ChapterApplies
    /\ Sharing(reply.arg) \cap PermittedCodes = {}

\* C3 as stated: with sharing codes of which none is permitted, the verdict carries
\* the policy of the sharing code that was inserted first during extraction.
C3_FirstByInsertion ==
    NoneSharingPermitted =>
        /\ reply.ret.exists
        /\ ~reply.ret.allowed
        /\ \E first \in Sharing(reply.arg) :
               /\ \A other \in Sharing(reply.arg) : FirstInserted(first) <= FirstInserted(other)
               /\ reply.ret.policy = RecordOf(first).policy

\* C3 amended: with sharing codes of which none is permitted, the verdict is
\* exists=true, allowed=false and carries the policy of the sharing code that
\* Object.keys lists first: the smallest integer-like sharing code if there is
\* one, otherwise the sharing code inserted first.
C3_FirstByKeyOrder ==
    NoneSharingPermitted =>
        /\ reply.ret.exists
        /\ ~reply.ret.allowed
        /\ reply.ret.modelCalls = 0
        /\ \E first \in Sharing(reply.arg) :
               /\ \A other \in Sharing(reply.arg) \ {first} : ListedBefore(first, other)
               /\ reply.ret.policy = RecordOf(first).policy

\* two sharing codes with different policies, the one inserted later listed first
C3_Witness ==
    /\ NoneSharingPermitted
    /\ \E c1, c2 \in Sharing(reply.arg) :
           /\ FirstInserted(c1) < FirstInserted(c2)
           /\ ListedBefore(c2, c1)
           /\ RecordOf(c1).policy # RecordOf(c2).policy
           /\ reply.ret.policy = RecordOf(c2).policy

\* C4: for a code that is no key and to which chapter inference does not apply,
\* the verdict is exists=false, allowed=false with a reason: the collaborator's
\* text when its call succeeds, the fixed message naming the code when it fails;
\* the failure is not propagated.
C4_ExplainNeverThrows ==
    (Checked /\ reply.arg \notin RegistryCodes /\ ~ChapterApplies) =>
        /\ ~reply.ret.threw
        /\ ~reply.ret.exists
        /\ ~reply.ret.allowed
        /\ reply.ret.modelCalls = 1
        /\ reply.env.ok => reply.ret.reason = reply.env.text
        /\ ~reply.env.ok =>
              /\ reply.ret.reason = TemplatedReason(deployment, reply.arg)
              /\ Includes(reply.ret.reason, reply.arg)

\* the collaborator fails for a code shorter than 4 whose 2-digit prefix is shared
C4_Witness ==
    /\ Checked
    /\ reply.arg \notin RegistryCodes
    /\ Len(reply.arg) < 4
    /\ Sharing(reply.arg) # {}
    /\ ~reply.env.ok
    /\ ~reply.ret.exists
    /\ reply.ret.reason # Null

(***************************************************************************)
(* Claims about findHSCodeByItemName (SpecResolve)                         *)
(***************************************************************************)
Found == reply.op = "find"

TermKeys == {itemToHsMap[i].k : i \in 1..Len(itemToHsMap)}

\* the position of a key in the term index's iteration order
KeyPos(key) == CHOOSE i \in 1..Len(itemToHsMap) : itemToHsMap[i].k = key

CodeOfKey(key) == itemToHsMap[KeyPos(key)].v

\* the lower-cased, trimmed item name of the lookup
AskedName == Trim(ToLowerCase(reply.arg))

\* key holds sub as a contiguous part
HoldsPart(key, sub) ==
    \E from \in 0..(Len(key) - Len(sub)) :
        \A i \in 1..Len(sub) : key[from + i] = sub[i]

ForwardKeys == {key \in TermKeys : HoldsPart(key, AskedName)}

BackwardKeys == {key \in TermKeys : Len(key) > 5 /\ HoldsPart(AskedName, key)}

\* the key of a non-empty set that comes first in the iteration order
FirstOf(keys) == CHOOSE key \in keys : \A other \in keys : KeyPos(key) <= KeyPos(other)

C5_WitnessBackward ==
    /\ Found
    /\ AskedName \notin TermKeys
    /\ ForwardKeys = {}
    /\ BackwardKeys # {}
    /\ \E short \in TermKeys :
           /\ Len(short) <= 5
           /\ HoldsPart(AskedName, short)
           /\ KeyPos(short) < KeyPos(FirstOf(BackwardKeys))
           /\ CodeOfKey(short) # reply.ret

(***************************************************************************)
(* extractHSCodes on a document text: hsCodeRegex.exec                     *)
(*   /(\d{8,10})\s+(.*?)(?:\s+)(Allowed|Restricted|Prohibited|Special      *)
(*    License Required)/gi   (usa.js)                                      *)
(*   /(\d{8})\s+(.*?)(?:\s+)(Free|Restricted|Prohibited|Not Permitted)/gi  *)
(*    (index.js)                                                           *)
(* Positions are 1-based in the sequence; match.index and lastIndex are    *)
(* the 0-based offsets of JavaScript.                                      *)
(***************************************************************************)
\* the alternation of policy keywords, in the order of the pattern
Keywords(d) ==
    IF d = "usa"
    THEN << <<"A", "l", "l", "o", "w", "e", "d">>,
            <<"R", "e", "s", "t", "r", "i", "c", "t", "e", "d">>,
            <<"P", "r", "o", "h", "i", "b", "i", "t", "e", "d">>,
            <<"S", "p", "e", "c", "i", "a", "l", " ", "L", "i", "c", "e", "n", "s", "e", " ", "R", "e", "q", "u", "i", "r", "e", "d">> >>
    ELSE << <<"F", "r", "e", "e">>,
            <<"R", "e", "s", "t", "r", "i", "c", "t", "e", "d">>,
            <<"P", "r", "o", "h", "i", "b", "i", "t", "e", "d">>,
            <<"N", "o", "t", " ", "P", "e", "r", "m", "i", "t", "t", "e", "d">> >>

MinOf(S) == CHOOSE x \in S : \A y \in S : x <= y

MaxOf(S) == CHOOSE x \in S : \A y \in S : x >= y

\* the number of consecutive digits of t from position p on
DigitRun(t, p) ==
    LET stop == {i \in p..Len(t) : ~IsDigit(t[i])}
    IN  IF stop = {} THEN Len(t) - p + 1 ELSE MinOf(stop) - p

\* the number of consecutive white-space characters of t from position p on (\s)
WsRun(t, p) ==
    LET stop == {i \in p..Len(t) : t[i] \notin WhiteSpace}
    IN  IF stop = {} THEN Len(t) - p + 1 ELSE MinOf(stop) - p

\* the number of consecutive characters of t from position p on that . matches
\* (any character but a line terminator)
DotRun(t, p) ==
    LET stop == {i \in p..Len(t) : t[i] = "\n"}
    IN  IF stop = {} THEN Len(t) - p + 1 ELSE MinOf(stop) - p

\* the length of the keyword that matches t at position p under the i flag, 0 if none
KeywordLenAt(t, p, d) ==
    LET kws == Keywords(d)
        hits == {i \in 1..Len(kws) :
                    /\ p + Len(kws[i]) - 1 <= Len(t)
                    /\ ToLowerCase(SubSeq(t, p, p + Len(kws[i]) - 1)) = ToLowerCase(kws[i])}
    IN  IF hits = {} THEN 0 ELSE Len(kws[MinOf(hits)])

NoMatch == [found |-> FALSE]

\* The match of the pattern that starts at position s, in the backtracking order
\* of the engine: the longest digit run first (greedy \d{8,10}), the longest first
\* white space (greedy \s+), the shortest description (lazy .*?), the longest
\* second white space.
TryAt(t, s, d) ==
    LET run == DigitRun(t, s)
        ns == {n \in MinCodeDigits..MaxCodeDigits(d) : n <= run}
        \* the lengths j of the second white space after which a keyword stands
        Gaps(q) == {j \in 1..WsRun(t, q) : KeywordLenAt(t, q + j, d) > 0}
        cands == UNION { UNION { { <<n, k, m>> :
                                     m \in {mm \in 0..DotRun(t, s + n + k) :
                                               /\ s + n + k + mm <= Len(t)
                                               /\ t[s + n + k + mm] \in WhiteSpace
                                               /\ Gaps(s + n + k + mm) # {}} } :
                                 k \in 1..WsRun(t, s + n) } :
                         n \in ns }
    IN  IF cands = {} THEN NoMatch
        ELSE LET n == MaxOf({c[1] : c \in cands})
                 k == MaxOf({c[2] : c \in {c \in cands : c[1] = n}})
                 m == MinOf({c[3] : c \in {c \in cands : c[1] = n /\ c[2] = k}})
                 q == s + n + k + m
                 j == MaxOf(Gaps(q))
                 kwLen == KeywordLenAt(t, q + j, d)
             IN  [found |-> TRUE,
                  index |-> s - 1,
                  m1 |-> SubSeq(t, s, s + n - 1),
                  m2 |-> SubSeq(t, s + n + k, q - 1),
                  m3 |-> SubSeq(t, q + j, q + j + kwLen - 1),
                  end |-> q + j + kwLen - 1]

\* hsCodeRegex.exec(pdfText) with hsCodeRegex.lastIndex = from: the match at the
\* first position, from the offset on, at which the pattern matches
RECURSIVE ExecFrom(_, _, _)
ExecFrom(t, from, d) ==
    IF from >= Len(t) THEN NoMatch
    ELSE IF ~IsDigit(t[from + 1]) THEN ExecFrom(t, from + 1, d)
    ELSE LET match == TryAt(t, from + 1, d)
         IN  IF match.found THEN match ELSE ExecFrom(t, from + 1, d)

\* the number of lines of a sample document
MaxLines == 2

ExampleText == <<"8", "4", "7", "1", "3", "0", "0", "0", "0", "0", " ", "L", "a", "p", "t", "o", "p", " ", "c", "o", "m", "p", "u", "t", "e", "r", "s", ",", " ", "n", "o", "t", "e", "b", "o", "o", "k", "s", " ", "A", "l", "l", "o", "w", "e", "d">>

ExampleName == <<"I", " ", "n", "e", "e", "d", " ", "a", " ", "l", "a", "p", "t", "o", "p">>

\* digit runs of 8, 10, 12 and 7 digits
DocDigitRuns ==
    { <<"8", "4", "7", "1", "3", "0", "0", "0">>,
      <<"8", "4", "7", "1", "3", "0", "0", "0", "0", "0">>,
      <<"8", "4", "7", "1", "3", "0", "0", "0", "0", "0", "1", "2">>,
      <<"8", "4", "7", "1", "3", "0", "0">> }

\* a description and the keyword as the document spells it
DocTails(d) ==
    { <<"L", "a", "p", "t", "o", "p", "s", ",", " ", "p", "c", " ">>
          \o (IF d = "usa" THEN <<"A", "l", "l", "o", "w", "e", "d">> ELSE <<"F", "r", "e", "e">>),
      <<"L", "a", "p", "t", "o", "p", "s", " ", "R", "E", "S", "T", "R", "I", "C", "T", "E", "D">> }

\* a line "digits description keyword"
DocLines(d) ==
    { digits \o <<" ">> \o tail : digits \in DocDigitRuns, tail \in DocTails(d) }

\* the documents of up to n lines
RECURSIVE DocsUpTo(_, _)
DocsUpTo(n, d) ==
    IF n = 0 THEN {<<>>}
    ELSE LET shorter == DocsUpTo(n - 1, d)
         IN  shorter \cup { IF doc = <<>> THEN line ELSE doc \o <<"\n">> \o line :
                               doc \in shorter, line \in DocLines(d) }

Documents(d) == DocsUpTo(MaxLines, d) \cup {ExampleText}

InitExtract ==
    /\ deployment \in Deployments
    /\ pdfText \in Documents(deployment)
    /\ lastIndex = 0
    /\ pc = "loop"
    /\ hsCodesData = <<>>
    /\ itemToHsMap = <<>>
    /\ triples = <<>>
    /\ reply = NoReply
    /\ textChunks = <<>>
    /\ ServerOff

\* one iteration of while ((match = hsCodeRegex.exec(pdfText)) !== null)
ExecMatch ==
    /\ pc = "loop"
    /\ LET match == ExecFrom(pdfText, lastIndex, deployment)
       IN  /\ match.found
           /\ LoopBody(match.index, match.m1, match.m2, match.m3)
           /\ lastIndex' = match.end
    /\ UNCHANGED <<deployment, pdfText, pc, reply, textChunks, pdfVersion, disk, embeddingsDatabase, calls, results, workers>>

\* exec returns null: the loop ends and extractHSCodes returns; usa.js returns
\* null ("regex-failed") when the registry is empty
ExecNull ==
    /\ pc = "loop"
    /\ ~ExecFrom(pdfText, lastIndex, deployment).found
    /\ lastIndex' = 0
    /\ pc' = IF deployment = "usa" /\ Len(hsCodesData) = 0 THEN "regex-failed" ELSE "returned"
    /\ UNCHANGED <<deployment, pdfText, hsCodesData, itemToHsMap, triples, reply, textChunks, pdfVersion, disk, embeddingsDatabase, calls, results, workers>>

DocNames ==
    { ExampleName,
      <<"l", "a", "p", "t", "o", "p">>,
      <<"P", "C">>,
      <<"n", "o", "t", "e", "b", "o", "o", "k", "s">> }

\* /api/find-hs-code on the term index extracted from the document
FindHSCodeDoc ==
    /\ pc = "returned"
    /\ reply = NoReply
    /\ \E itemName \in DocNames :
           reply' = [op |-> "find", arg |-> itemName, env |-> Null,
                     ret |-> FindHSCodeByItemName(itemName, itemToHsMap)]
    /\ UNCHANGED <<deployment, pdfText, lastIndex, pc, hsCodesData, itemToHsMap, triples, textChunks, pdfVersion, disk, embeddingsDatabase, calls, results, workers>>

NextExtract == ExecMatch \/ ExecNull \/ FindHSCodeDoc

SpecExtract == InitExtract /\ [][NextExtract]_vars

(***************************************************************************)
(* Claims about extractHSCodes                                             *)
(***************************************************************************)
ExampleCode == <<"8", "4", "7", "1", "3", "0", "0", "0", "0", "0">>

ExampleKeys ==
    { <<"l", "a", "p", "t", "o", "p", " ", "c", "o", "m", "p", "u", "t", "e", "r", "s">>,
      <<"n", "o", "t", "e", "b", "o", "o", "k", "s">>,
      <<"l", "a", "p", "t", "o", "p", " ", "c", "o", "m", "p", "u", "t", "e", "r", "s", ",", " ", "n", "o", "t", "e", "b", "o", "o", "k", "s">> }

\* the example document was extracted by usa.js and "I need a laptop" was asked
ExampleAsked ==
    /\ deployment = "usa"
    /\ pdfText = ExampleText
    /\ Found
    /\ reply.arg = ExampleName

\* the term index of the example: the three keys, all mapped to 8471300000
ExampleIndex ==
    /\ TermKeys = ExampleKeys
    /\ \A key \in TermKeys : CodeOfKey(key) = ExampleCode

\* C6 as stated: with the term index of the example document,
\* findHSCodeByItemName("I need a laptop") returns "8471300000".
C6_ExampleReturnsCode ==
    ExampleAsked => (ExampleIndex /\ reply.ret = ExampleCode)

\* C6 amended: the term index of the example document holds the three keys, all
\* mapped to "8471300000", and findHSCodeByItemName("I need a laptop") returns
\* none: no key contains the name and the name contains no key.
C6_ExampleReturnsNone ==
    ExampleAsked => (ExampleIndex /\ reply.ret = Null)

C6_Witness == ExampleAsked /\ Len(triples) = 1

CodesSeen == {triples[i].code : i \in 1..Len(triples)}

\* the last triple with the code
LastWith(code) == triples[MaxOf({i \in 1..Len(triples) : triples[i].code = code})]

\* the parts of a description between the separators , ; /
PiecesOf(s) ==
    { SubSeq(s, ij[1], ij[2]) : ij \in
        { ij \in (1..(Len(s) + 1)) \X (0..Len(s)) :
            /\ ij[1] <= ij[2] + 1
            /\ (ij[1] = 1 \/ s[ij[1] - 1] \in {",", ";", "/"})
            /\ (ij[2] = Len(s) \/ s[ij[2] + 1] \in {",", ";", "/"})
            /\ \A x \in ij[1]..ij[2] : s[x] \notin {",", ";", "/"} } }

\* the terms a description gives: its trimmed, lower-cased parts longer than 3
\* characters, and the full lower-cased description
TermsOf(description) ==
    { term \in {ToLowerCase(Trim(piece)) : piece \in PiecesOf(description)} : Len(term) > 3 }
        \cup {ToLowerCase(description)}

\* the last triple that produced the term
LastProducing(term) ==
    triples[MaxOf({i \in 1..Len(triples) : term \in TermsOf(triples[i].description)})]

\* C7: after the matched triples are processed in text order, the registry holds
\* exactly one record per distinct code, the description and policy of the last
\* triple with that code, and every term of the term index maps to the code of
\* the last triple that produced the term.  (Stated of the states of the
\* extraction, before a lookup, which reads the two maps and writes neither.)
C7_LastWriteWins ==
    reply = NoReply =>
    /\ RegistryCodes = CodesSeen
    /\ Len(hsCodesData) = Cardinality(CodesSeen)
    /\ \A code \in CodesSeen :
           /\ RecordOf(code).description = LastWith(code).description
           /\ RecordOf(code).policy = LastWith(code).policy
    /\ \A key \in TermKeys :
           /\ \E i \in 1..Len(triples) : key \in TermsOf(triples[i].description)
           /\ CodeOfKey(key) = LastProducing(key).code

\* the document repeats a code with another description and another policy
C7_Witness ==
    /\ pc = "returned"
    /\ \E i, j \in 1..Len(triples) :
           /\ i < j
           /\ triples[i].code = triples[j].code
           /\ triples[i].description # triples[j].description
           /\ triples[i].policy # triples[j].policy
    /\ Len(triples) = 2

\* C26: after extractHSCodes, every entry term -> code of the term index is
\* derived from the description now stored in the registry for that code: the
\* term is that description lower-cased or one of its trimmed, lower-cased
\* sub-terms, also when a code occurs several times with different descriptions.
C26_TermsOfStoredDescription ==
    reply = NoReply =>
        \A key \in TermKeys : key \in TermsOf(RecordOf(CodeOfKey(key)).description)

\* a code occurred twice; the term index still maps a term of its first
\* description to it, and the registry holds its second description
C26_StaleTerm ==
    /\ reply = NoReply
    /\ Len(triples) = 2
    /\ triples[1].code = triples[2].code
    /\ \E key \in TermKeys :
           /\ CodeOfKey(key) = triples[1].code
           /\ key \in TermsOf(triples[1].description)
           /\ key \notin TermsOf(triples[2].description)
           /\ RecordOf(triples[1].code).description = triples[2].description

\* C8: the keys of the term index are exactly the trimmed, lower-cased sub-terms
\* longer than 3 characters of the descriptions processed and their full
\* lower-cased descriptions, each mapped to the code of a triple that gives it; so
\* a key shorter than 4 characters is a full description.  (Stated of the
\* states of the extraction, before a lookup, which only reads the index.)
C8_TermKeys ==
    reply = NoReply =>
    /\ TermKeys = UNION {TermsOf(triples[i].description) : i \in 1..Len(triples)}
    /\ \A key \in TermKeys :
           \E i \in 1..Len(triples) :
               key \in TermsOf(triples[i].description) /\ CodeOfKey(key) = triples[i].code
    /\ \A key \in TermKeys :
           Len(key) < 4 => \E i \in 1..Len(triples) : key = ToLowerCase(triples[i].description)

\* a sub-term of 3 or fewer characters was dropped while a full description of
\* fewer than 4 characters is a key
C8_Witness ==
    /\ \E i \in 1..Len(triples) :
           \E piece \in PiecesOf(triples[i].description) :
               /\ Len(Trim(piece)) \in 1..3
               /\ ToLowerCase(Trim(piece)) \notin TermKeys
    /\ \E key \in TermKeys : Len(key) < 4

\* the digit at position p of the text, if any
DigitAt(p) == p >= 1 /\ p <= Len(pdfText) /\ IsDigit(pdfText[p])

\* C9: every registry entry extracted has as key the whole run of digits of its
\* triple as it stands in the text, never a proper part of a longer run, and as
\* policy the matched keyword as it appears in the text.
C9_WholeDigitRun ==
    \A i \in 1..Len(triples) :
        LET from == triples[i].index + 1
            to == triples[i].index + Len(triples[i].code)
        IN  /\ triples[i].code \in RegistryCodes
            /\ SubSeq(pdfText, from, to) = triples[i].code
            /\ ~DigitAt(from - 1)
            /\ ~DigitAt(to + 1)
            /\ Includes(pdfText, triples[i].policy)
            /\ \E k \in 1..Len(Keywords(deployment)) :
                   EqualsIgnoreCase(triples[i].policy, Keywords(deployment)[k])

(***************************************************************************)
(* The segmentation step of generatePdfEmbeddings                          *)
(***************************************************************************)
\* const chunkSize = 1000, scaled down so that every text up to MaxTextLen
\* characters can be enumerated; the loop compares lengths with it and nothing else
chunkSize == 3

\* the length of the longest document text segmented
MaxTextLen == 7

\* a flush that forgets the word that did not fit
WordStepDropsWord(st, word) ==
    IF Len(st.subChunk \o <<" ">> \o word) > chunkSize
    THEN [chunks |-> Append(st.chunks, Trim(st.subChunk)), subChunk |-> <<>>]
    ELSE [chunks |-> st.chunks, subChunk |-> st.subChunk \o <<" ">> \o word]

\* the body of for (const word of words): st = [chunks, subChunk]
WordStep(st, word) ==
    IF Len(st.subChunk \o <<" ">> \o word) > chunkSize
    THEN [chunks |-> Append(st.chunks, Trim(st.subChunk)), subChunk |-> word]
    ELSE [chunks |-> st.chunks, subChunk |-> st.subChunk \o <<" ">> \o word]

RECURSIVE WordLoop(_, _)
WordLoop(st, words) ==
    IF words = <<>> THEN st ELSE WordLoop(WordStep(st, Head(words)), Tail(words))

\* the body of for (const paragraph of paragraphs): st = [chunks, currentChunk]
ParagraphStep(st, paragraph) ==
    IF Len(st.currentChunk \o paragraph) > chunkSize
    THEN LET flushed == IF Len(st.currentChunk) > 0
                        THEN Append(st.chunks, Trim(st.currentChunk))
                        ELSE st.chunks
         IN  IF Len(paragraph) > chunkSize
             THEN LET sub == WordLoop([chunks |-> flushed, subChunk |-> <<>>],
                                      SplitStr(paragraph, <<" ">>))
                  IN  [chunks |-> sub.chunks,
                       currentChunk |-> IF Len(sub.subChunk) > 0
                                        THEN Trim(sub.subChunk) ELSE <<>>]
             ELSE [chunks |-> flushed, currentChunk |-> paragraph]
    ELSE [chunks |-> st.chunks,
          currentChunk |-> st.currentChunk \o <<"\n", "\n">> \o paragraph]

RECURSIVE ParagraphLoop(_, _)
ParagraphLoop(st, paragraphs) ==
    IF paragraphs = <<>> THEN st
    ELSE ParagraphLoop(ParagraphStep(st, Head(paragraphs)), Tail(paragraphs))

\* textChunks after the loop and the final flush
SegmentText(text) ==
    LET st == ParagraphLoop([chunks |-> <<>>, currentChunk |-> <<>>],
                            SplitStr(text, <<"\n", "\n">>))
    IN  IF Len(st.currentChunk) > 0
        THEN Append(st.chunks, Trim(st.currentChunk))
        ELSE st.chunks

\* the characters of the document texts
TextChars == {"a", "b", " ", "\n"}

InitSegment ==
    /\ deployment \in Deployments
    /\ pdfText \in UNION {[1..n -> TextChars] : n \in 0..MaxTextLen}
    /\ lastIndex = 0
    /\ pc = "segment"
    /\ hsCodesData = <<>>
    /\ itemToHsMap = <<>>
    /\ triples = <<>>
    /\ reply = NoReply
    /\ textChunks = <<>>
    /\ ServerOff

\* generatePdfEmbeddings: "Create text chunks for embeddings"
Segment ==
    /\ pc = "segment"
    /\ textChunks' = SegmentText(pdfText)
    /\ pc' = "segmented"
    /\ UNCHANGED <<deployment, pdfText, lastIndex, hsCodesData, itemToHsMap, triples, reply, pdfVersion, disk, embeddingsDatabase, calls, results, workers>>

NextSegment == Segment

SpecSegment == InitSegment /\ [][NextSegment]_vars

\* the characters of s that are not white space, in order
RECURSIVE NonWhiteSpace(_)
NonWhiteSpace(s) ==
    IF s = <<>> THEN <<>>
    ELSE IF Head(s) \in {" ", "\n", "\t"} THEN NonWhiteSpace(Tail(s))
    ELSE <<Head(s)>> \o NonWhiteSpace(Tail(s))

\* the passages one after the other
RECURSIVE Concatenated(_)
Concatenated(chunks) ==
    IF chunks = <<>> THEN <<>> ELSE Head(chunks) \o Concatenated(Tail(chunks))

\* C10: the segmentation is lossless and order-preserving: the non-white-space
\* characters of the passages, in passage order, are the non-white-space
\* characters of the input in their order.
C10_Lossless ==
    pc = "segmented" => NonWhiteSpace(Concatenated(textChunks)) = NonWhiteSpace(pdfText)

\* a paragraph longer than the bound was sub-divided on words into several passages
C10_Witness ==
    /\ pc = "segmented"
    /\ Len(textChunks) >= 2
    /\ \A i \in 1..Len(pdfText) : pdfText[i] # "\n"
    /\ Len(pdfText) > chunkSize
    /\ \E i, j \in 1..Len(pdfText) : i < j /\ pdfText[i] = "a" /\ pdfText[j] = "b"

\* C11: every passage the segmentation step produces has a length of at most
\* chunkSize, for every input text.
C11_PassageBound ==
    pc = "segmented" => \A i \in 1..Len(textChunks) : Len(textChunks[i]) <= chunkSize

\* a passage is over the bound because a paragraph was joined, with its "\n\n",
\* to a chunk that the length test had found short enough without it
C11_JoinedOverBound ==
    /\ pc = "segmented"
    /\ \E i \in 1..Len(textChunks) :
           /\ Len(textChunks[i]) > chunkSize
           /\ \E p \in 1..(Len(textChunks[i]) - 1) :
                  textChunks[i][p] = "\n" /\ textChunks[i][p + 1] = "\n"

\* a passage is over the bound because it is one word longer than the bound
C11_LongWord ==
    /\ pc = "segmented"
    /\ \E i \in 1..Len(textChunks) :
           /\ Len(textChunks[i]) > chunkSize
           /\ \A p \in 1..Len(textChunks[i]) : textChunks[i][p] \notin {" ", "\n"}

\* C30: the segmentation step never emits an empty passage: every passage holds
\* at least one non-white-space character, for every input text.
C30_NoEmptyPassage ==
    pc = "segmented" => \A i \in 1..Len(textChunks) : NonWhiteSpace(textChunks[i]) # <<>>

\* a text of white space only (the empty text included) gives one empty passage
C30_BlankText ==
    /\ pc = "segmented"
    /\ NonWhiteSpace(pdfText) = <<>>
    /\ textChunks = <<<<>>>>

\* a paragraph that begins with a word longer than the bound gives an empty
\* passage before the word
C30_LongFirstWord ==
    /\ pc = "segmented"
    /\ Len(pdfText) > chunkSize
    /\ \A p \in 1..(chunkSize + 1) : pdfText[p] \notin {" ", "\n"}
    /\ Len(textChunks) >= 2
    /\ textChunks[1] = <<>>

(***************************************************************************)
(* The server: generatePdfEmbeddings, its two callers and the lookups      *)
(*                                                                         *)
(* JavaScript runs a handler without interruption up to its next await, so *)
(* one action is the code between two awaits.  The data of a document is   *)
(* abstract here: the registry and the term index extracted from document  *)
(* v are the number v (0 is the empty object {}), and passage i of         *)
(* document v with its embedding is the record [id |-> i, doc |-> v].      *)
(***************************************************************************)
\* src/usa.js, src/index.js and the sequential src/unnamed/part_001
Variants == Deployments \cup {"part_001"}

\* the number of passages the segmentation gives for a document
NumPassages == 3

\* const MAX_WORKERS = Math.max(1, os.cpus().length - 1), on a machine of three cores
MAX_WORKERS == 2

\* how many times the document at PDF_PATH is replaced
MaxDocVersion == 2

\* the number of regenerate requests
MaxRegenerations == 2

PassageIds == 0..(NumPassages - 1)

RegenerationNames == <<"r1", "r2", "r3">>

Regenerations == {RegenerationNames[i] : i \in 1..MaxRegenerations}

Callers == {"init"} \cup Regenerations

\* let embeddingsDatabase = { chunks: [], hsCodesData: {}, itemToHsMap: {} }
EmptyDatabase == [chunks |-> <<>>, hsCodesData |-> 0, itemToHsMap |-> 0]

\* a file: "absent", "corrupt" (it does not parse as JSON) or "valid" with its data
NoFile == [state |-> "absent", chunks |-> <<>>, hsCodesData |-> 0, itemToHsMap |-> 0]

CorruptFile == [NoFile EXCEPT !.state = "corrupt"]

\* JSON.stringify(embeddingsDatabase) written to EMBEDDINGS_PATH
EmbeddingsFile(chunks, registry) ==
    [state |-> "valid", chunks |-> chunks, hsCodesData |-> registry, itemToHsMap |-> 0]

\* JSON.stringify(itemToHsMap) written to ITEM_TO_HS_PATH
ItemToHsFile(index) ==
    [state |-> "valid", chunks |-> <<>>, hsCodesData |-> 0, itemToHsMap |-> index]

NoChunkFiles == [i \in PassageIds |-> 0]

\* The state of a call that has not begun; of a call that was answered only the
\* position is kept.  doc is the document read, res the state of the embedding
\* call of each passage, out the value returned.  History: before and found are
\* which cache files existed when the caller began and when generatePdfEmbeddings
\* tested them, path is the branch it took, wrote the files it has written, snap
\* the value of embeddingsDatabase when a regenerate request began (kept by the
\* request that was answered with the error, until the next request begins).
IdleCall ==
    [pc |-> "idle", doc |-> 0, res |-> [i \in PassageIds |-> "none"],
     before |-> <<FALSE, FALSE>>, found |-> <<FALSE, FALSE>>, path |-> "none", wrote |-> {},
     out |-> EmptyDatabase, snap |-> EmptyDatabase]

\* fs.existsSync(EMBEDDINGS_PATH) || fs.existsSync(ITEM_TO_HS_PATH)
CacheExistsEither(d) == d.embeddings.state # "absent" \/ d.itemToHs.state # "absent"

\* fs.existsSync(EMBEDDINGS_PATH) && fs.existsSync(ITEM_TO_HS_PATH)
CacheExists(d) == d.embeddings.state # "absent" /\ d.itemToHs.state # "absent"

\* an invalidation that forgets the item mapping
InvalidateEmbeddingsOnly(variant, d) == [d EXCEPT !.embeddings = NoFile]

\* the unlinks at the head of /api/regenerate-embeddings; usa.js clears the chunk files too
Invalidate(variant, d) ==
    [embeddings |-> NoFile,
     itemToHs |-> NoFile,
     chunkFiles |-> IF variant = "usa" THEN NoChunkFiles ELSE d.chunkFiles]

\* which of EMBEDDINGS_PATH and ITEM_TO_HS_PATH exist
Existing(d) == <<d.embeddings.state # "absent", d.itemToHs.state # "absent">>

\* generatePdfEmbeddings from its entry to its first await or return: the cached
\* data if both files exist (JSON.parse throws on a corrupt one), else the
\* document is read and handed to pdfParse
BeginCall(d, before, version) ==
    LET began == [IdleCall EXCEPT !.before = before, !.found = Existing(d)]
    IN  IF CacheExists(d)
        THEN IF d.embeddings.state = "corrupt" \/ d.itemToHs.state = "corrupt"
             THEN [began EXCEPT !.pc = "threw", !.path = "cache"]
             ELSE [began EXCEPT !.pc = "returned", !.path = "cache",
                                !.out = [chunks |-> d.embeddings.chunks,
                                         hsCodesData |-> d.embeddings.hsCodesData,
                                         itemToHsMap |-> d.itemToHs.itemToHsMap]]
        ELSE [began EXCEPT !.pc = "parsing", !.path = "rebuild", !.doc = version]

\* how many embedding calls are started together: a batch of processInBatches
\* (usa.js), all of them (index.js), one (part_001)
BatchSize(variant) ==
    IF variant = "usa" THEN MAX_WORKERS
    ELSE IF variant = "index" THEN NumPassages
    ELSE 1

\* the items of the batch that begins at item i
Batch(variant, i) == {j \in PassageIds : j >= i /\ j < i + BatchSize(variant)}

\* the first item not started, NumPassages if all were
NextItem(res) ==
    IF \A i \in PassageIds : res[i] # "none" THEN NumPassages
    ELSE CHOOSE i \in PassageIds : res[i] = "none" /\ \A j \in PassageIds : j < i => res[j] # "none"

Started(res, items) == [i \in PassageIds |-> IF i \in items THEN "running" ELSE res[i]]

Settled(res) == \A i \in PassageIds : res[i] \in {"ok", "failed"}

\* the numbers of the chunk files present in CHUNKS_DIR
ChunkFileNumbers(d) == {i \in PassageIds : d.chunkFiles[i] # 0}

\* fs.readdirSync(CHUNKS_DIR).filter(file => file.startsWith('chunk_')): the names
\* of the chunk files, each once, in an order the file system chooses
ReaddirOrders(d) ==
    LET n == Cardinality(ChunkFileNumbers(d))
    IN  {files \in [1..n -> ChunkFileNumbers(d)] :
            \A j, k \in 1..n : files[j] = files[k] => j = k}

\* a listing left in the order readdirSync gave it
Unsorted(files) == files

RECURSIVE InsertByNumber(_, _)
\* numB placed after the elements of a sorted list that numA - numB does not put after it
InsertByNumber(sorted, numB) ==
    IF sorted = <<>> THEN <<numB>>
    ELSE IF Head(sorted) - numB > 0 THEN <<numB>> \o sorted
    ELSE <<Head(sorted)>> \o InsertByNumber(Tail(sorted), numB)

RECURSIVE SortByNumberFrom(_, _)
SortByNumberFrom(sorted, files) ==
    IF files = <<>> THEN sorted
    ELSE SortByNumberFrom(InsertByNumber(sorted, Head(files)), Tail(files))

\* .sort((a, b) => numA - numB), the numbers parsed from the file names
SortByNumber(files) == SortByNumberFrom(<<>>, files)

\* the chunk files of CHUNKS_DIR in the order of the sorted listing, parsed
ChunksFromDisk(d, files) ==
    LET chunkFiles == SortByNumber(files)
    IN  [k \in 1..Len(chunkFiles) |-> [id |-> chunkFiles[k], doc |-> d.chunkFiles[chunkFiles[k]]]]

\* results.filter(result => result !== null), the results in the order of the passages
ChunksFromResults(res, version) ==
    LET all == [i \in 1..NumPassages |->
                   [id |-> i - 1, doc |-> IF res[i - 1] = "ok" THEN version ELSE 0]]
    IN  SelectSeq(all, LAMBDA c : c.doc # 0)

\* the process is up and answers requests
Listening == calls["init"].pc = "published"

InitServer ==
    /\ deployment \in Variants
    /\ pdfText = <<>>
    /\ lastIndex = 0
    /\ pc = "server"
    /\ hsCodesData = <<>>
    /\ itemToHsMap = <<>>
    /\ triples = <<>>
    /\ reply = NoReply
    /\ textChunks = <<>>
    /\ pdfVersion = 1
    /\ disk \in [embeddings : {NoFile, CorruptFile,
                               EmbeddingsFile(ChunksFromResults([i \in PassageIds |-> "ok"], 1), 1)},
                 itemToHs : {NoFile, CorruptFile, ItemToHsFile(1)},
                 chunkFiles : {NoChunkFiles}]
    /\ embeddingsDatabase = EmptyDatabase
    /\ calls = [c \in Callers |-> IdleCall]
    /\ results = <<>>
    /\ workers = <<>>

pureVars == <<deployment, pdfText, lastIndex, pc, hsCodesData, itemToHsMap, triples, textChunks, results, workers>>

\* A behaviour is followed up to the answer of the one lookup it records: the
\* steps of the server are taken while no lookup was answered.
Observing == reply.op \in {"none", "check-pending"}

\* initServer calls generatePdfEmbeddings
StartServer ==
    /\ Observing
    /\ calls["init"].pc = "idle"
    /\ calls' = [calls EXCEPT !["init"] = BeginCall(disk, Existing(disk), pdfVersion)]
    /\ UNCHANGED <<pureVars, reply, pdfVersion, disk, embeddingsDatabase>>

\* /api/regenerate-embeddings up to the await inside generatePdfEmbeddings
Regenerate(r) ==
    /\ Observing
    /\ Listening
    /\ calls[r].pc = "idle"
    /\ disk' = Invalidate(deployment, disk)
    /\ calls' = [c \in Callers |->
                    IF c = r
                    THEN [BeginCall(disk', Existing(disk), pdfVersion)
                              EXCEPT !.snap = embeddingsDatabase]
                    ELSE IF calls[c].pc = "answered500"
                    THEN [calls[c] EXCEPT !.snap = EmptyDatabase]
                    ELSE calls[c]]
    /\ UNCHANGED <<pureVars, reply, pdfVersion, embeddingsDatabase>>

\* the client sends its regenerate requests one after the other: request r after
\* the requests before it were answered
Answered(r) == calls[r].pc \in {"published", "answered500"}

RegenerateInTurn(r) ==
    /\ \A i \in 1..MaxRegenerations :
           \A j \in 1..MaxRegenerations :
               (RegenerationNames[j] = r /\ i < j) => Answered(RegenerationNames[i])
    /\ Regenerate(r)

\* pdfParse rejects (or readFileSync(PDF_PATH) threw): the catch rethrows
ParseFails(c) ==
    /\ Observing
    /\ calls[c].pc = "parsing"
    /\ calls' = [calls EXCEPT ![c].pc = "threw"]
    /\ UNCHANGED <<pureVars, reply, pdfVersion, disk, embeddingsDatabase>>

\* pdfParse resolves: extraction, the item mapping is written, segmentation,
\* usa.js clears the chunk files, the first embedding calls are started
ParseDone(c) ==
    /\ Observing
    /\ calls[c].pc = "parsing"
    /\ disk' = [disk EXCEPT !.itemToHs = ItemToHsFile(calls[c].doc),
                            !.chunkFiles = IF deployment = "usa" THEN NoChunkFiles ELSE @]
    /\ calls' = [calls EXCEPT ![c].pc = "embedding",
                              ![c].wrote = @ \cup {"itemToHs"},
                              ![c].res = Started(@, Batch(deployment, 0))]
    /\ UNCHANGED <<pureVars, reply, pdfVersion, embeddingsDatabase>>

\* an embedding call succeeds: the worker of usa.js writes chunk_<i>.json; in
\* part_001 the loop goes on to the next passage
EmbedOk(c, i) ==
    /\ Observing
    /\ calls[c].res[i] = "running"
    /\ disk' = IF deployment = "usa"
               THEN [disk EXCEPT !.chunkFiles[i] = calls[c].doc]
               ELSE disk
    /\ calls' = [calls EXCEPT ![c].res =
                    IF deployment = "part_001"
                    THEN Started([@ EXCEPT ![i] = "ok"], Batch(deployment, i + 1))
                    ELSE [@ EXCEPT ![i] = "ok"]]
    /\ UNCHANGED <<pureVars, reply, pdfVersion, embeddingsDatabase>>

\* an embedding call fails: usa.js posts success: false, index.js returns null,
\* part_001 has no handler and the exception leaves generatePdfEmbeddings
EmbedFails(c, i) ==
    /\ Observing
    /\ calls[c].res[i] = "running"
    /\ calls' = [calls EXCEPT ![c].res[i] = "failed",
                              ![c].pc = IF deployment = "part_001" THEN "threw" ELSE @]
    /\ UNCHANGED <<pureVars, reply, pdfVersion, disk, embeddingsDatabase>>

\* processInBatches: the batch has settled and items are left
NextBatch(c) ==
    /\ Observing
    /\ calls[c].pc = "embedding"
    /\ \A i \in PassageIds : calls[c].res[i] # "running"
    /\ NextItem(calls[c].res) < NumPassages
    /\ calls' = [calls EXCEPT ![c].res = Started(@, Batch(deployment, NextItem(@)))]
    /\ UNCHANGED <<pureVars, reply, pdfVersion, disk, embeddingsDatabase>>

\* all embedding calls have settled: the index is put together and written to
\* EMBEDDINGS_PATH; index.js then awaits pool.terminate()
Finish(c) ==
    /\ Observing
    /\ calls[c].pc = "embedding"
    /\ Settled(calls[c].res)
    /\ \E files \in ReaddirOrders(disk) :
       LET chunks == IF deployment = "usa" THEN ChunksFromDisk(disk, files)
                     ELSE ChunksFromResults(calls[c].res, calls[c].doc)
       IN  /\ disk' = [disk EXCEPT !.embeddings = EmbeddingsFile(chunks, calls[c].doc)]
           /\ calls' = [calls EXCEPT
                  ![c].pc = IF deployment = "index" THEN "terminating" ELSE "returned",
                  ![c].wrote = @ \cup {"embeddings"},
                  ![c].out = [chunks |-> chunks, hsCodesData |-> calls[c].doc,
                              itemToHsMap |-> calls[c].doc]]
    /\ UNCHANGED <<pureVars, reply, pdfVersion, embeddingsDatabase>>

\* index.js: pool.terminate() resolves and generatePdfEmbeddings returns
PoolTerminated(c) ==
    /\ Observing
    /\ calls[c].pc = "terminating"
    /\ calls' = [calls EXCEPT ![c].pc = "returned"]
    /\ UNCHANGED <<pureVars, reply, pdfVersion, disk, embeddingsDatabase>>

\* an assignment that replaces the registry alone
SwapRegistryOnly(current, out) == [current EXCEPT !.hsCodesData = out.hsCodesData]

\* embeddingsDatabase = await generatePdfEmbeddings()
Swap(current, out) == out

\* the caller resumes with the value returned: the assignment, then app.listen
\* (initServer) or the success answer (regenerate)
Publish(c) ==
    /\ Observing
    /\ calls[c].pc = "returned"
    /\ embeddingsDatabase' = Swap(embeddingsDatabase, calls[c].out)
    /\ calls' = [calls EXCEPT ![c] = [IdleCall EXCEPT !.pc = "published"]]
    /\ UNCHANGED <<pureVars, reply, pdfVersion, disk>>

\* a catch that resets the active snapshot
CatchResets(current) == EmptyDatabase

\* the catch of the caller: console.error and the answer, embeddingsDatabase is
\* not assigned
CatchKeeps(current) == current

\* the caller resumes in its catch: process.exit(1) (initServer) or the 500
\* answer (regenerate)
Caught(c) ==
    /\ Observing
    /\ calls[c].pc = "threw"
    /\ calls' = [calls EXCEPT ![c] =
                    [IdleCall EXCEPT !.pc = IF c = "init" THEN "exited" ELSE "answered500",
                                     !.snap = calls[c].snap]]
    /\ embeddingsDatabase' = CatchKeeps(embeddingsDatabase)
    /\ UNCHANGED <<pureVars, reply, pdfVersion, disk>>

\* the document at PDF_PATH is replaced by a newer one
ReplaceDocument ==
    /\ Observing
    /\ pdfVersion < MaxDocVersion
    /\ Listening
    /\ pdfVersion' = pdfVersion + 1
    /\ UNCHANGED <<pureVars, reply, disk, embeddingsDatabase, calls>>

\* the lookups: what each handler reads of embeddingsDatabase, in its code
\* between two awaits.  item-to-hs-mapping exists in index.js and part_001 only.
LookupKinds(variant) ==
    {"find-hs-code", "find-by-description", "hs-codes"}
        \cup (IF variant = "usa" THEN {} ELSE {"item-to-hs-mapping"})

\* <<x>> for a property read, <<>> for one the handler does not read
Reads(kind) ==
    [hsCodesData |-> IF kind = "item-to-hs-mapping" THEN <<>> ELSE <<embeddingsDatabase.hsCodesData>>,
     itemToHsMap |-> IF kind \in {"find-by-description", "hs-codes"} THEN <<>>
                     ELSE <<embeddingsDatabase.itemToHsMap>>]

\* a lookup that remembers the name it resolved in the active term index
LookupCaching ==
    /\ Listening
    /\ reply = NoReply
    /\ \E kind \in LookupKinds(deployment) :
           reply' = [op |-> kind, arg |-> Null, env |-> Reads(kind), ret |-> Null]
    /\ embeddingsDatabase' = [embeddingsDatabase EXCEPT !.itemToHsMap = @ + 10]
    /\ UNCHANGED <<pureVars, pdfVersion, disk, calls>>

\* /api/find-hs-code, /api/find-by-description, /api/hs-codes, /api/item-to-hs-mapping
Lookup ==
    /\ Listening
    /\ reply = NoReply
    /\ \E kind \in LookupKinds(deployment) :
           reply' = [op |-> kind, arg |-> Null, env |-> Reads(kind), ret |-> Null]
    /\ UNCHANGED <<pureVars, pdfVersion, disk, embeddingsDatabase, calls>>

\* the compliance check by item name up to the await inside checkHSCodeCompliance:
\* findHSCodeByItemName reads the term index, checkHSCodeCompliance the registry
CheckBegin ==
    /\ Listening
    /\ reply = NoReply
    /\ reply' = [op |-> "check-pending", arg |-> Null, env |-> Reads("check"), ret |-> Null]
    /\ UNCHANGED <<pureVars, pdfVersion, disk, embeddingsDatabase, calls>>

\* the compliance check resumes and answers from what it read
CheckEnd ==
    /\ reply.op = "check-pending"
    /\ reply' = [reply EXCEPT !.op = "check"]
    /\ UNCHANGED <<pureVars, pdfVersion, disk, embeddingsDatabase, calls>>

NextServer ==
    \/ StartServer
    \/ \E r \in Regenerations : RegenerateInTurn(r)
    \/ \E c \in Callers : ParseFails(c)
    \/ \E c \in Callers : ParseDone(c)
    \/ \E c \in Callers, i \in PassageIds : EmbedOk(c, i)
    \/ \E c \in Callers, i \in PassageIds : EmbedFails(c, i)
    \/ \E c \in Callers : NextBatch(c)
    \/ \E c \in Callers : Finish(c)
    \/ \E c \in Callers : PoolTerminated(c)
    \/ \E c \in Callers : Publish(c)
    \/ \E c \in Callers : Caught(c)
    \/ ReplaceDocument
    \/ Lookup
    \/ CheckBegin
    \/ CheckEnd

SpecServer == InitServer /\ [][NextServer]_vars

(***************************************************************************)
(* Claims about generatePdfEmbeddings and the server (SpecServer)          *)
(***************************************************************************)
\* the call rebuilds and the embedding call of some passage has failed
SomeFailed(c) == \E i \in PassageIds : calls[c].res[i] = "failed"

AllFailed(c) == \A i \in PassageIds : calls[c].res[i] = "failed"

\* generatePdfEmbeddings has put its index together and written it
Built(c) == calls[c].pc \in {"terminating", "returned"} /\ calls[c].path = "rebuild"

\* C12: in each variant, when the embedding call of one passage fails, index
\* building still completes: the call does not throw, and the index it returns
\* holds the passages whose embedding succeeded and leaves the failed ones out.
C12_FailureTolerated ==
    \A c \in Callers :
        SomeFailed(c) =>
            /\ calls[c].pc # "threw"
            /\ Built(c) => calls[c].out.chunks = ChunksFromResults(calls[c].res, calls[c].doc)

\* the same of usa.js and index.js alone, where it holds
C12_ToleratedByWorkers == deployment \in Deployments => C12_FailureTolerated

\* C13: when the embedding call fails for every passage, generatePdfEmbeddings
\* reports an error to its caller: it does not return an empty index, and no
\* empty index is written to EMBEDDINGS_PATH.
C13_AllFailedIsError ==
    \A c \in Callers : AllFailed(c) => ~Built(c)

\* C14: when both cache files exist and one of them does not parse,
\* generatePdfEmbeddings goes on with a regeneration from the document; the
\* failure to parse is not raised to the caller.
C14_CorruptCacheRebuilds ==
    \A c \in Callers :
        (/\ calls[c].found = <<TRUE, TRUE>>
         /\ calls[c].pc # "idle"
         /\ "corrupt" \in {disk.embeddings.state, disk.itemToHs.state})
            => calls[c].pc # "threw" /\ calls[c].path = "rebuild"

C15_WitnessCached ==
    \E c \in Callers : calls[c].pc = "returned" /\ calls[c].path = "cache"

\* every state of the cache files and the chunk files
DiskStates ==
    [embeddings : {NoFile, CorruptFile,
                   EmbeddingsFile(ChunksFromResults([i \in PassageIds |-> "ok"], 1), 1)},
     itemToHs : {NoFile, CorruptFile, ItemToHsFile(1)},
     chunkFiles : [PassageIds -> {0, 1}]]

\* C16: the invalidation of /api/regenerate-embeddings leaves none of the cached
\* files, whichever of them existed; applied again it changes nothing; and the
\* regeneration that follows rebuilds from the document, never from the cache.
C16_Invalidation ==
    /\ \A r \in Regenerations :
           /\ calls[r].path # "cache"
           /\ calls[r].pc = "parsing" =>
                  /\ Existing(disk) = <<FALSE, FALSE>>
                  /\ deployment = "usa" => disk.chunkFiles = NoChunkFiles
                  /\ Invalidate(deployment, disk) = disk
                  /\ calls[r].found = <<FALSE, FALSE>>
                  /\ calls[r].path = "rebuild"
    /\ \A d \in (IF \E r \in Regenerations : calls[r].pc = "parsing" THEN DiskStates ELSE {}) :
           /\ Existing(Invalidate(deployment, d)) = <<FALSE, FALSE>>
           /\ deployment = "usa" => Invalidate(deployment, d).chunkFiles = NoChunkFiles
           /\ Invalidate(deployment, Invalidate(deployment, d)) = Invalidate(deployment, d)

\* a regeneration began when not both files existed
C16_Witness ==
    \E r \in Regenerations : calls[r].pc = "parsing" /\ calls[r].before # <<TRUE, TRUE>>

\* a regeneration began when both files existed
C16_WitnessBoth ==
    \E r \in Regenerations : calls[r].pc = "parsing" /\ calls[r].before = <<TRUE, TRUE>>

\* the step begins a lookup: the handler runs up to its first await or its answer
LookupBegins == reply.op = "none" /\ reply'.op # "none"

\* the step replaces the active snapshot
Replaces == embeddingsDatabase' # embeddingsDatabase

\* C17: a lookup reads the registry and the term index of one complete snapshot:
\* all it reads, it reads in one step from the value embeddingsDatabase has
\* then, a lookup that waits keeps what it read, and embeddingsDatabase changes
\* only as a whole, to the value a call of generatePdfEmbeddings has returned.
C17_OneSnapshot ==
    [][/\ LookupBegins =>
              /\ reply'.env.hsCodesData \in {<<>>, <<embeddingsDatabase.hsCodesData>>}
              /\ reply'.env.itemToHsMap \in {<<>>, <<embeddingsDatabase.itemToHsMap>>}
              /\ ~Replaces
       /\ reply.op = "check-pending" => reply'.env = reply.env
       /\ Replaces =>
              \E c \in Callers :
                  /\ calls[c].pc = "returned"
                  /\ calls'[c].pc = "published"
                  /\ embeddingsDatabase' = calls[c].out]_vars

\* a compliance check waits with the registry and the term index of the
\* snapshot that a regeneration has replaced meanwhile
C17_Witness ==
    /\ reply.op = "check-pending"
    /\ reply.env.hsCodesData # <<embeddingsDatabase.hsCodesData>>
    /\ reply.env.itemToHsMap # <<embeddingsDatabase.itemToHsMap>>
    /\ \E r \in Regenerations : calls[r].pc = "published"

\* the step belongs to a regenerate request
RegenerationStep == \E r \in Regenerations : calls'[r] # calls[r]

\* C18: after server start no lookup changes the active registry, term index and
\* passages, nor the cache files; they change in the steps of a regenerate
\* request only.
C18_LookupsChangeNothing ==
    [][/\ reply' # reply => UNCHANGED <<embeddingsDatabase, disk>>
       /\ (Listening /\ ~UNCHANGED <<embeddingsDatabase, disk>>) => RegenerationStep]_vars

\* a lookup was answered after a regenerate request had replaced the snapshot
C18_Witness ==
    /\ reply.op \in {"find-hs-code", "find-by-description", "hs-codes", "item-to-hs-mapping", "check"}
    /\ \E r \in Regenerations : calls[r].pc = "published"

\* each passage has a greater id than the one before it
StrictlyAscending(chunks) ==
    \A j, k \in 1..Len(chunks) : j < k => chunks[j].id < chunks[k].id

\* C23: the passage collection that generatePdfEmbeddings returns and the one it
\* writes to EMBEDDINGS_PATH list their passages in strictly ascending id, no id
\* twice, in whatever order the embedding calls completed and whichever of them
\* failed; so does the collection published from it.
C23_AscendingIds ==
    /\ \A c \in Callers :
           calls[c].pc \in {"terminating", "returned"} => StrictlyAscending(calls[c].out.chunks)
    /\ disk.embeddings.state = "valid" => StrictlyAscending(disk.embeddings.chunks)
    /\ StrictlyAscending(embeddingsDatabase.chunks)

\* an index built of chunk files: the first and the last passage, the embedding
\* call of the one between them having failed
C23_Witness ==
    /\ deployment = "usa"
    /\ \E c \in Callers :
           /\ Built(c)
           /\ calls[c].res[1] = "failed"
           /\ Len(calls[c].out.chunks) = 2
           /\ calls[c].out.chunks[1].id = 0
           /\ calls[c].out.chunks[2].id = 2
           /\ disk.embeddings.chunks = calls[c].out.chunks

\* the embedding call of a later passage has completed while that of an earlier
\* passage of the batch is still running
C23_CompletedOutOfOrder ==
    \E c \in Callers :
        /\ calls[c].pc = "embedding"
        /\ calls[c].res[0] = "running"
        /\ calls[c].res[1] = "ok"

\* no regenerate request after request r has begun
NoneAfter(r) ==
    \A i, j \in 1..MaxRegenerations :
        (RegenerationNames[i] = r /\ i < j) => calls[RegenerationNames[j]].pc = "idle"

\* C28: a regenerate request during which generatePdfEmbeddings fails is answered
\* with the 500 error and leaves embeddingsDatabase (registry, term index and
\* passages) the value it had when the request began; the lookups that begin
\* after that answer, until another regenerate request, read that value.
C28_FailureKeepsSnapshot ==
    [][\A r \in Regenerations :
          /\ (calls[r].pc = "threw" /\ calls'[r] # calls[r]) =>
                 /\ calls'[r].pc = "answered500"
                 /\ embeddingsDatabase' = calls[r].snap
          /\ (calls[r].pc = "answered500" /\ NoneAfter(r)) =>
                 /\ embeddingsDatabase' = calls[r].snap
                 /\ LookupBegins =>
                        /\ reply'.env.hsCodesData \in {<<>>, <<calls[r].snap.hsCodesData>>}
                        /\ reply'.env.itemToHsMap \in {<<>>, <<calls[r].snap.itemToHsMap>>}]_vars

\* a lookup was answered from a snapshot with passages after a regenerate request
\* of a newer document had failed, its cache files deleted
C28_Witness ==
    \E r \in Regenerations :
        /\ calls[r].pc = "answered500"
        /\ NoneAfter(r)
        /\ calls[r].snap.chunks # <<>>
        /\ pdfVersion > calls[r].snap.hsCodesData
        /\ disk.embeddings.state = "absent"
        /\ reply.op \in {"find-hs-code", "find-by-description", "hs-codes"}
        /\ reply.env.hsCodesData = <<calls[r].snap.hsCodesData>>
        /\ embeddingsDatabase = calls[r].snap

\* the same after an embedding call of the sequential loop had failed
C28_WitnessEmbedding ==
    \E r \in Regenerations :
        /\ deployment = "part_001"
        /\ calls[r].pc = "answered500"
        /\ disk.itemToHs.state = "valid"
        /\ reply.op \in {"find-hs-code", "find-by-description", "hs-codes"}
        /\ embeddingsDatabase = calls[r].snap

(***************************************************************************)
(* Overlapping regenerate requests of usa.js                               *)
(*                                                                         *)
(* The handler is async and Express takes the next request at every await: *)
(* a second /api/regenerate-embeddings request may begin while the         *)
(* generatePdfEmbeddings of the first one waits for pdfParse or for its    *)
(* embedding workers.  Both use CHUNKS_DIR, EMBEDDINGS_PATH and            *)
(* ITEM_TO_HS_PATH.  The actions are those of the server; the requests are *)
(* not held back until the one before was answered.                        *)
(***************************************************************************)
InitOverlap ==
    /\ InitServer
    /\ deployment = "usa"
    /\ disk.embeddings.state = "valid"
    /\ disk.itemToHs.state = "valid"

\* request r is sent after the requests before it were sent, answered or not
RegenerateOverlapping(r) ==
    /\ \A i, j \in 1..MaxRegenerations :
           (RegenerationNames[j] = r /\ i < j) => calls[RegenerationNames[i]].pc # "idle"
    /\ Regenerate(r)

NextOverlap ==
    \/ StartServer
    \/ \E r \in Regenerations : RegenerateOverlapping(r)
    \/ \E c \in Callers : ParseFails(c)
    \/ \E c \in Callers : ParseDone(c)
    \/ \E c \in Callers, i \in PassageIds : EmbedOk(c, i)
    \/ \E c \in Callers, i \in PassageIds : EmbedFails(c, i)
    \/ \E c \in Callers : NextBatch(c)
    \/ \E c \in Callers : Finish(c)
    \/ \E c \in Callers : Publish(c)
    \/ \E c \in Callers : Caught(c)
    \/ ReplaceDocument

SpecOverlap == InitOverlap /\ [][NextOverlap]_vars

\* C29: in usa.js a regeneration that completes returns, for publication, the
\* passages whose embedding succeeded in that regeneration, each once, of the
\* document it read, and no other passage, also when another regenerate request
\* overlaps it.
C29_OwnPassages ==
    \A r \in Regenerations :
        Built(r) => calls[r].out.chunks = ChunksFromResults(calls[r].res, calls[r].doc)

\* two regenerate requests are in progress together
Overlapping ==
    \E r, q \in Regenerations :
        /\ r # q
        /\ calls[r].pc \in {"parsing", "embedding", "returned"}
        /\ calls[q].pc \in {"parsing", "embedding", "returned"}

\* a regeneration completes without a passage whose embedding succeeded in it: the
\* other request cleared CHUNKS_DIR after the chunk file was written
C29_LostPassage ==
    \E r \in Regenerations :
        /\ Built(r)
        /\ \E i \in PassageIds :
               /\ calls[r].res[i] = "ok"
               /\ \A k \in 1..Len(calls[r].out.chunks) : calls[r].out.chunks[k].id # i

\* a regeneration completes with a passage of another document than the one it
\* read: the chunk file was written by a worker of the other request
C29_MixedPassage ==
    \E r \in Regenerations :
        /\ Built(r)
        /\ \E k \in 1..Len(calls[r].out.chunks) : calls[r].out.chunks[k].doc # calls[r].doc

\* a regeneration completes with a passage whose embedding failed in it
C29_ForeignPassage ==
    \E r \in Regenerations :
        /\ Built(r)
        /\ \E k \in 1..Len(calls[r].out.chunks) :
               calls[r].res[calls[r].out.chunks[k].id] = "failed"

\* without overlap the regenerations of usa.js return their own passages
C29_OwnPassagesInTurn == deployment = "usa" => C29_OwnPassages

(***************************************************************************)
(* findRelevantContent                                                     *)
(*                                                                         *)
(* The specification starts from similarityScores, the passages with the   *)
(* number cosineSimilarity gave each of them for the query; the numbers    *)
(* are small integers here, compared as the comparator compares them.      *)
(***************************************************************************)
\* the number of passages of the index searched
MaxChunks == 6

\* the numbers a similarity may be: 1..MaxSimilarity
MaxSimilarity == 2

\* .slice(0, 5)
TopCount == 5

\* the content of passage id: one letter
ContentOf(id) == <<SubSeq(Lowers, id + 1, id + 1)[1]>>

\* A JavaScript number: one of the numbers, or NaN.  cosineSimilarity divides
\* dotProduct by normA * normB, which is 0 / 0 for a vector of zero magnitude.
Number(n) == [nan |-> FALSE, value |-> n]
NaN == [nan |-> TRUE, value |-> 0]
Similarities == {Number(n) : n \in 1..MaxSimilarity} \cup {NaN}

\* x - y
Minus(x, y) == IF x.nan \/ y.nan THEN NaN ELSE Number(x.value - y.value)

\* (a, b) => b.similarity - a.similarity
Compare(a, b) == Minus(b.similarity, a.similarity)

\* what the sort reads of the comparator: a NaN counts as +0
Negative(v) == ~v.nan /\ v.value < 0
Zero(v) == v.nan \/ v.value = 0

\* Array.prototype.sort is stable: an item goes before the first item that the
\* comparator puts after it, and so after the items it ties with
InsertStable(sorted, item) ==
    LET later == {k \in 1..Len(sorted) : Negative(Compare(item, sorted[k]))}
        at == IF later = {} THEN Len(sorted) + 1 ELSE MinOf(later)
    IN  SubSeq(sorted, 1, at - 1) \o <<item>> \o SubSeq(sorted, at, Len(sorted))

RECURSIVE SortBySimilarity(_)
SortBySimilarity(items) ==
    IF items = <<>> THEN <<>>
    ELSE InsertStable(SortBySimilarity(SubSeq(items, 1, Len(items) - 1)), items[Len(items)])

\* The comparator is consistent when the items it counts as equal to a common
\* item it counts as equal to each other; a NaN among two different numbers
\* breaks this.
ConsistentComparator(items) ==
    \A i, j, k \in 1..Len(items) :
        Zero(Compare(items[i], items[j])) /\ Zero(Compare(items[j], items[k]))
            => Zero(Compare(items[i], items[k]))

\* similarityScores.sort((a, b) => b.similarity - a.similarity): the stable
\* sort when the comparator is consistent, and otherwise an order that the
\* language leaves to the implementation
SortOutcomes(items) ==
    IF ConsistentComparator(items) THEN {SortBySimilarity(items)}
    ELSE {[k \in 1..Len(items) |-> items[order[k]]] : order \in Permutations(1..Len(items))}

\* Array.prototype.join
RECURSIVE Join(_, _)
Join(strings, sep) ==
    IF strings = <<>> THEN <<>>
    ELSE IF Len(strings) = 1 THEN strings[1]
    ELSE strings[1] \o sep \o Join(Tail(strings), sep)

\* .slice(0, 5), .map(item => item.content) and .join('\n\n')
TopContents(sorted) ==
    LET topResults == SubSeq(sorted, 1, IF Len(sorted) < TopCount THEN Len(sorted) ELSE TopCount)
    IN  Join([k \in 1..Len(topResults) |-> topResults[k].content], <<"\n", "\n">>)

\* what findRelevantContent may return for the similarities computed
FindRelevantContent(similarityScores) ==
    {TopContents(sorted) : sorted \in SortOutcomes(similarityScores)}

InitRelevant ==
    /\ deployment \in Deployments
    /\ pdfText = <<>>
    /\ lastIndex = 0
    /\ pc = "relevant"
    /\ hsCodesData = <<>>
    /\ itemToHsMap = <<>>
    /\ triples = <<>>
    /\ \E n \in 0..MaxChunks :
           \E similarity \in [1..n -> Similarities] :
               reply = [op |-> "findRelevantContent", env |-> Null, ret |-> Null,
                        arg |-> [i \in 1..n |-> [id |-> i - 1, content |-> ContentOf(i - 1),
                                                  similarity |-> similarity[i]]]]
    /\ textChunks = <<>>
    /\ ServerOff

\* findRelevantContent after the similarities are computed
Relevant ==
    /\ pc = "relevant"
    /\ \E ret \in FindRelevantContent(reply.arg) : reply' = [reply EXCEPT !.ret = ret]
    /\ pc' = "relevant-returned"
    /\ UNCHANGED <<deployment, pdfText, lastIndex, hsCodesData, itemToHsMap, triples, textChunks, serverVars, results, workers>>

NextRelevant == Relevant

SpecRelevant == InitRelevant /\ [][NextRelevant]_vars

\* the contents returned are one letter each, three places apart
ReturnedCount == (Len(reply.ret) + 2) \div 3

\* the passage (its place in reply.arg) returned at place p
ReturnedAt(p) == CHOOSE i \in 1..Len(reply.arg) : reply.arg[i].content = <<reply.ret[3 * p - 2]>>

ReturnedPassages == {ReturnedAt(p) : p \in 1..ReturnedCount}

Higher(x, y) == ~x.nan /\ ~y.nan /\ x.value > y.value
Same(x, y) == ~x.nan /\ ~y.nan /\ x.value = y.value

\* min(5, number of passages) passages, by descending similarity, equal
\* similarities in passage order, none left out higher than one returned
TopFive ==
    /\ ReturnedCount = (IF Len(reply.arg) < 5 THEN Len(reply.arg) ELSE 5)
    /\ Cardinality(ReturnedPassages) = ReturnedCount
    /\ reply.ret = Join([p \in 1..ReturnedCount |-> reply.arg[ReturnedAt(p)].content], <<"\n", "\n">>)
    /\ \A p, q \in 1..ReturnedCount :
           p < q =>
               /\ ~Higher(reply.arg[ReturnedAt(q)].similarity, reply.arg[ReturnedAt(p)].similarity)
               /\ Same(reply.arg[ReturnedAt(q)].similarity, reply.arg[ReturnedAt(p)].similarity)
                      => ReturnedAt(p) < ReturnedAt(q)
    /\ \A i \in (1..Len(reply.arg)) \ ReturnedPassages :
           \A j \in ReturnedPassages :
               ~Higher(reply.arg[i].similarity, reply.arg[j].similarity)

\* C19: findRelevantContent returns the contents of min(5, number of passages)
\* passages, by descending similarity, equal similarities in passage order; no
\* passage left out has a higher similarity than a passage returned.
C19_TopFive == pc = "relevant-returned" => TopFive

\* the same when every similarity is a number
C19_TopFiveOfNumbers ==
    (pc = "relevant-returned" /\ \A i \in 1..Len(reply.arg) : ~reply.arg[i].similarity.nan) => TopFive

\* more than five passages with numbers for similarities, a tie among those
\* returned and a passage left out that ties with one returned
C19_NumbersWitness ==
    /\ pc = "relevant-returned"
    /\ Len(reply.arg) > 5
    /\ \A i \in 1..Len(reply.arg) : ~reply.arg[i].similarity.nan
    /\ \E p, q \in 1..ReturnedCount :
           /\ p < q
           /\ Same(reply.arg[ReturnedAt(q)].similarity, reply.arg[ReturnedAt(p)].similarity)
           /\ \E k \in 1..(ReturnedAt(p) - 1) : Higher(reply.arg[ReturnedAt(p)].similarity, reply.arg[k].similarity)
    /\ \E i \in (1..Len(reply.arg)) \ ReturnedPassages :
           \E j \in ReturnedPassages : Same(reply.arg[i].similarity, reply.arg[j].similarity)

\* a NaN between a lower and a higher similarity, returned in passage order
C19_NaNBetween ==
    /\ pc = "relevant-returned"
    /\ Len(reply.arg) = 3
    /\ reply.arg[1].similarity = Number(1)
    /\ reply.arg[2].similarity = NaN
    /\ reply.arg[3].similarity = Number(2)
    /\ reply.ret = Join(<<ContentOf(0), ContentOf(1), ContentOf(2)>>, <<"\n", "\n">>)

(***************************************************************************)
(* extractHSCodesWithAI: the per-chunk results and their merge             *)
(***************************************************************************)
\* the chunks of pdfText handed to the workers
MaxAiChunks == 3

\* the objects a reply of the text-completion model may hold
AiLaptop == [hsCode |-> <<"8", "4", "7", "1", "3", "0", "0", "0">>, description |-> <<"L", "a", "p", "t", "o", "p", "s", ",", " ", "p", "c">>, policy |-> <<"A", "l", "l", "o", "w", "e", "d">>]
AiNotebook == [hsCode |-> <<"8", "4", "7", "1", "3", "0", "0", "0">>, description |-> <<"N", "o", "t", "e", "b", "o", "o", "k", "s">>, policy |-> <<"R", "e", "s", "t", "r", "i", "c", "t", "e", "d">>]
AiOtherCode == [hsCode |-> <<"8", "5", "1", "7", "1", "2", "0", "0">>, description |-> <<"L", "a", "p", "t", "o", "p", "s">>, policy |-> <<>>]
AiNoDescription == [hsCode |-> <<"8", "5", "1", "7", "1", "2", "0", "0">>, description |-> <<>>, policy |-> <<"A", "l", "l", "o", "w", "e", "d">>]

\* the arrays parsed from a reply; the empty one also stands for a reply that
\* holds no array or fails to parse, and for a failed call
AiReplies ==
    { <<>>, <<AiLaptop>>, <<AiNotebook>>, <<AiOtherCode>>, <<AiNoDescription>>,
      <<AiLaptop, AiNotebook>>, <<AiOtherCode, AiLaptop>> }

\* policy: item.policy || "Unknown"
PolicyOrUnknown(policy) == IF policy = <<>> THEN <<"U", "n", "k", "n", "o", "w", "n">> ELSE policy

\* extractedCodes.forEach(item => { if (item.hsCode && item.description) ... })
RECURSIVE WorkerResult(_)
WorkerResult(extractedCodes) ==
    IF extractedCodes = <<>> THEN [hsCodesData |-> <<>>, itemToHsMap |-> <<>>]
    ELSE LET before == WorkerResult(SubSeq(extractedCodes, 1, Len(extractedCodes) - 1))
             item == extractedCodes[Len(extractedCodes)]
         IN  IF item.hsCode = <<>> \/ item.description = <<>> THEN before
             ELSE [hsCodesData |-> UpsertRegistry(before.hsCodesData, item.hsCode, item.description,
                                                  PolicyOrUnknown(item.policy)),
                   itemToHsMap |-> UpsertTerms(before.itemToHsMap, item.hsCode, item.description)]

\* an assignment that keeps the value the target already has
RECURSIVE ObjAssignKeepFirst(_, _)
ObjAssignKeepFirst(target, source) ==
    IF source = <<>> THEN target
    ELSE ObjAssignKeepFirst(ObjSetKeepFirst(target, Head(source).k, Head(source).v), Tail(source))

\* Object.assign(target, source): the properties of source, in key order
RECURSIVE ObjAssign(_, _)
ObjAssign(target, source) ==
    IF source = <<>> THEN target
    ELSE ObjAssign(ObjSet(target, Head(source).k, Head(source).v), Tail(source))

\* results.forEach(result => { Object.assign(hsCodesData, result.hsCodesData);
\*                             Object.assign(itemToHsMap, result.itemToHsMap) })
RECURSIVE MergeResults(_)
MergeResults(rs) ==
    IF rs = <<>> THEN [hsCodesData |-> <<>>, itemToHsMap |-> <<>>]
    ELSE LET before == MergeResults(SubSeq(rs, 1, Len(rs) - 1))
         IN  [hsCodesData |-> ObjAssign(before.hsCodesData, rs[Len(rs)].hsCodesData),
              itemToHsMap |-> ObjAssign(before.itemToHsMap, rs[Len(rs)].itemToHsMap)]

\* processInBatches has returned: one result per chunk, in chunk order
InitMerge ==
    /\ deployment = "usa"
    /\ pdfText = <<>>
    /\ lastIndex = 0
    /\ pc = "ai-results"
    /\ hsCodesData = <<>>
    /\ itemToHsMap = <<>>
    /\ triples = <<>>
    /\ reply = NoReply
    /\ textChunks = <<>>
    /\ pdfVersion = 0
    /\ disk = <<>>
    /\ embeddingsDatabase = <<>>
    /\ calls = <<>>
    /\ \E n \in 1..MaxAiChunks :
           \E replies \in [1..n -> AiReplies] :
               results = [i \in 1..n |-> WorkerResult(replies[i])]
    /\ workers = <<>>

\* extractHSCodesWithAI after the await: the merge and the return
Merge ==
    /\ pc = "ai-results"
    /\ hsCodesData' = MergeResults(results).hsCodesData
    /\ itemToHsMap' = MergeResults(results).itemToHsMap
    /\ pc' = "ai-returned"
    /\ UNCHANGED <<deployment, pdfText, lastIndex, triples, reply, textChunks, serverVars, results, workers>>

NextMerge == Merge

SpecMerge == InitMerge /\ [][NextMerge]_vars

\* the key-value pairs of an object, whatever the order of its keys
Pairs(o) == {o[i] : i \in 1..Len(o)}

\* the results in another order
Permuted(order) == [i \in 1..Len(results) |-> results[order[i]]]

\* the last result, in chunk order, that holds key k in its property prop
LastResultWith(prop, k) == CHOOSE i \in 1..Len(results) :
                         /\ ObjHas(results[i][prop], k)
                         /\ \A j \in (i + 1)..Len(results) : ~ObjHas(results[j][prop], k)

\* merged is the union of the keys of the results, each with the value of the
\* last result that holds it
LastWriteWins(prop, merged) ==
    /\ {merged[i].k : i \in 1..Len(merged)}
           = UNION {{results[i][prop][j].k : j \in 1..Len(results[i][prop])} : i \in 1..Len(results)}
    /\ \A i \in 1..Len(merged) : merged[i].v = ObjGet(results[LastResultWith(prop, merged[i].k)][prop], merged[i].k)
    /\ \A i, j \in 1..Len(merged) : merged[i].k = merged[j].k => i = j

\* the results agree on every key two of them hold
Agree(prop) ==
    \A i, j \in 1..Len(results) :
        \A k \in 1..Len(results[i][prop]) :
            ObjHas(results[j][prop], results[i][prop][k].k)
                => ObjGet(results[j][prop], results[i][prop][k].k) = results[i][prop][k].v

\* C20 (as stated): the merged registry and the merged term index are the same
\* for every permutation of the per-chunk results.
C20_OrderIndependent ==
    pc = "ai-returned" =>
        \A order \in Permutations(1..Len(results)) :
            /\ Pairs(MergeResults(Permuted(order)).hsCodesData) = Pairs(hsCodesData)
            /\ Pairs(MergeResults(Permuted(order)).itemToHsMap) = Pairs(itemToHsMap)

\* C20 (amended): the merged registry and term index hold the union of the keys
\* of the per-chunk results, each key with the value of the last result in chunk
\* order that holds it; a permutation of the results gives the same merged object
\* when the results agree on the keys they share.
C20_LastWriteWins ==
    pc = "ai-returned" =>
        /\ LastWriteWins("hsCodesData", hsCodesData)
        /\ LastWriteWins("itemToHsMap", itemToHsMap)
        /\ \A order \in Permutations(1..Len(results)) :
               /\ Agree("hsCodesData")
                      => Pairs(MergeResults(Permuted(order)).hsCodesData) = Pairs(hsCodesData)
               /\ Agree("itemToHsMap")
                      => Pairs(MergeResults(Permuted(order)).itemToHsMap) = Pairs(itemToHsMap)

\* two results hold the same code with different entries and the same term with
\* different codes, and the later one is what the merge kept
C20_Witness ==
    /\ pc = "ai-returned"
    /\ \E i, j \in 1..Len(results) :
           /\ i < j
           /\ \E k \in 1..Len(results[i].hsCodesData) :
                  /\ ObjHas(results[j].hsCodesData, results[i].hsCodesData[k].k)
                  /\ ObjGet(results[j].hsCodesData, results[i].hsCodesData[k].k) # results[i].hsCodesData[k].v
                  /\ ObjGet(hsCodesData, results[i].hsCodesData[k].k) # results[i].hsCodesData[k].v
    /\ \E i, j \in 1..Len(results) :
           /\ i < j
           /\ \E k \in 1..Len(results[i].itemToHsMap) :
                  /\ ObjHas(results[j].itemToHsMap, results[i].itemToHsMap[k].k)
                  /\ ObjGet(results[j].itemToHsMap, results[i].itemToHsMap[k].k) # results[i].itemToHsMap[k].v
                  /\ ObjGet(itemToHsMap, results[i].itemToHsMap[k].k) # results[i].itemToHsMap[k].v

(***************************************************************************)
(* The extraction step of generatePdfEmbeddings in usa.js: extractHSCodes, *)
(* and extractHSCodesWithAI over processInBatches when it returns null     *)
(***************************************************************************)
\* const chunkSize = 10000 of extractHSCodesWithAI, scaled down; the loop uses
\* it to cut the text and for nothing else
AiChunkSize == 2

\* for (let i = 0; i < pdfText.length; i += chunkSize) chunks.push(pdfText.substring(i, i + chunkSize))
AiChunks(text) ==
    [k \in 1..((Len(text) + AiChunkSize - 1) \div AiChunkSize) |->
        SubSeq(text, (k - 1) * AiChunkSize + 1,
               IF k * AiChunkSize < Len(text) THEN k * AiChunkSize ELSE Len(text))]

\* { hsCodesData: {}, itemToHsMap: {} }
EmptyResult == [hsCodesData |-> <<>>, itemToHsMap |-> <<>>]

\* the worker of an item before workerFn is called for it; at is the number of
\* workers that had settled when this one did
IdleWorker(chunk) == [item |-> chunk, state |-> "idle", outcome |-> "none", value |-> EmptyResult, at |-> 0]

\* a slice that holds every item not yet started
SliceToEnd(i, n) == (i + 1)..n

\* items.slice(i, i + batchSize), as places 1..n of the items
Slice(i, n) == (i + 1)..(IF i + MAX_WORKERS < n THEN i + MAX_WORKERS ELSE n)

\* the batch awaited: the loop variable i is the number of results pushed
CurrentBatch == Slice(Len(results), Len(workers))

InFlight == {k \in 1..Len(workers) : workers[k].state = "running"}

SettledWorkers == {k \in 1..Len(workers) : workers[k].state \in {"fulfilled", "rejected"}}

\* batch.map((item, index) => workerFn(item, i + index, items.length))
StartWorkers(ws, batch) ==
    [k \in 1..Len(ws) |-> IF k \in batch THEN [ws[k] EXCEPT !.state = "running"] ELSE ws[k]]

\* results pushed in the order the workers settled
BatchResultsAsSettled(batch) ==
    LET Earlier(j, k) == workers[j].at < workers[k].at
        PlaceOf(k) == Cardinality({j \in batch : Earlier(j, k)}) + 1
    IN  [p \in 1..Cardinality(batch) |-> workers[CHOOSE k \in batch : PlaceOf(k) = p].value]

\* const batchResults = await Promise.all(batchPromises): the values in the
\* order of the promises, which is the order of the items
BatchResults(batch) ==
    [p \in 1..Cardinality(batch) |-> workers[Len(results) + p].value]

\* a catch that throws the error again
ExtractionCatchRethrows == [threw |-> TRUE, hsCodesData |-> <<>>, itemToHsMap |-> <<>>]

\* catch (error) { return { hsCodesData: {}, itemToHsMap: {} } }
ExtractionCatch == [threw |-> FALSE, hsCodesData |-> <<>>, itemToHsMap |-> <<>>]

\* texts the structural extraction finds nothing in, of up to MaxAiChunks chunks
UnstructuredTexts == UNION {[1..n -> {"x"}] : n \in 0..(MaxAiChunks * AiChunkSize)}

\* texts with one or two structural matches
StructuredTexts ==
    { ExampleText,
      ExampleText \o <<"\n">> \o
          <<"8", "4", "7", "1", "3", "0", "0", "0", "0", "0", " ", "P", "C", "s", " ", "R", "e", "s", "t", "r", "i", "c", "t", "e", "d">> }

InitFallback ==
    /\ deployment = "usa"
    /\ pdfText \in UnstructuredTexts \cup StructuredTexts
    /\ lastIndex = 0
    /\ pc = "loop"
    /\ hsCodesData = <<>>
    /\ itemToHsMap = <<>>
    /\ triples = <<>>
    /\ reply = NoReply
    /\ textChunks = <<>>
    /\ ServerOff

\* generatePdfEmbeddings calls extractHSCodesWithAI, which cuts the text and
\* calls processInBatches, which starts the first batch and awaits it; with no
\* chunk processInBatches returns at once
FallbackBegins ==
    /\ pc = "regex-failed"
    /\ LET chunks == AiChunks(pdfText)
           idle == [k \in 1..Len(chunks) |-> IdleWorker(chunks[k])]
       IN  /\ workers' = StartWorkers(idle, Slice(0, Len(chunks)))
           /\ pc' = IF Len(chunks) = 0 THEN "ai-results" ELSE "batch-await"
    /\ results' = <<>>
    /\ reply' = [op |-> "extractHSCodesWithAI", arg |-> pdfText, env |-> Null, ret |-> Null]
    /\ UNCHANGED <<deployment, pdfText, lastIndex, hsCodesData, itemToHsMap, triples, textChunks, serverVars>>

\* a rejection of the batch awaited is handled before any other event
RejectionPending == pc = "batch-await" /\ \E k \in CurrentBatch : workers[k].state = "rejected"

Settle(k, state, outcome, value) ==
    workers' = [workers EXCEPT ![k] = [@ EXCEPT !.state = state, !.outcome = outcome, !.value = value,
                                                !.at = Cardinality(SettledWorkers)]]

\* the worker parses an array out of the reply and posts what it built from it
WorkerPosts(k) ==
    /\ k \in InFlight
    /\ ~RejectionPending
    /\ \E extractedCodes \in AiReplies : Settle(k, "fulfilled", "parsed", WorkerResult(extractedCodes))
    /\ UNCHANGED <<deployment, pdfText, lastIndex, pc, hsCodesData, itemToHsMap, triples, reply, textChunks, serverVars, results>>

\* model.generateContent throws, or the reply holds no array that parses: the
\* worker posts empty maps
WorkerPostsEmpty(k) ==
    /\ k \in InFlight
    /\ ~RejectionPending
    /\ \E outcome \in {"collaborator-error", "unparsable-reply"} : Settle(k, "fulfilled", outcome, EmptyResult)
    /\ UNCHANGED <<deployment, pdfText, lastIndex, pc, hsCodesData, itemToHsMap, triples, reply, textChunks, serverVars, results>>

\* worker.on('error') or an exit code other than 0 before any message: reject
WorkerFails(k) ==
    /\ k \in InFlight
    /\ ~RejectionPending
    /\ Settle(k, "rejected", "worker-failed", EmptyResult)
    /\ UNCHANGED <<deployment, pdfText, lastIndex, pc, hsCodesData, itemToHsMap, triples, reply, textChunks, serverVars, results>>

\* Promise.all is fulfilled: results.push(...batchResults); then the delay before
\* the next batch, or the return of the results
BatchFulfilled ==
    /\ pc = "batch-await"
    /\ \A k \in CurrentBatch : workers[k].state = "fulfilled"
    /\ results' = results \o BatchResults(CurrentBatch)
    /\ pc' = IF Len(results') < Len(workers) THEN "batch-delay" ELSE "ai-results"
    /\ UNCHANGED <<deployment, pdfText, lastIndex, hsCodesData, itemToHsMap, triples, reply, textChunks, serverVars, workers>>

\* the delay has passed: the next batch is started and awaited
NextBatchStarts ==
    /\ pc = "batch-delay"
    /\ workers' = StartWorkers(workers, CurrentBatch)
    /\ pc' = "batch-await"
    /\ UNCHANGED <<deployment, pdfText, lastIndex, hsCodesData, itemToHsMap, triples, reply, textChunks, serverVars, results>>

\* Promise.all is rejected: processInBatches throws and extractHSCodesWithAI
\* catches
BatchRejected ==
    /\ RejectionPending
    /\ hsCodesData' = ExtractionCatch.hsCodesData
    /\ itemToHsMap' = ExtractionCatch.itemToHsMap
    /\ pc' = IF ExtractionCatch.threw THEN "threw" ELSE "ai-caught"
    /\ UNCHANGED <<deployment, pdfText, lastIndex, triples, reply, textChunks, serverVars, results, workers>>

\* generatePdfEmbeddings goes on with the registry and the term index it got
Continue ==
    /\ pc \in {"returned", "ai-returned", "ai-caught"}
    /\ deployment = "usa"
    /\ pc' = "extracted"
    /\ reply' = IF reply.op = "extractHSCodesWithAI"
                THEN [reply EXCEPT !.ret = [hsCodesData |-> hsCodesData, itemToHsMap |-> itemToHsMap]]
                ELSE reply
    /\ UNCHANGED <<deployment, pdfText, lastIndex, hsCodesData, itemToHsMap, triples, textChunks, serverVars, results, workers>>

NextFallback ==
    \/ ExecMatch
    \/ ExecNull
    \/ FallbackBegins
    \/ \E k \in 1..MaxAiChunks : WorkerPosts(k)
    \/ \E k \in 1..MaxAiChunks : WorkerPostsEmpty(k)
    \/ \E k \in 1..MaxAiChunks : WorkerFails(k)
    \/ BatchFulfilled
    \/ NextBatchStarts
    \/ BatchRejected
    \/ Merge
    \/ Continue

SpecFallback == InitFallback /\ [][NextFallback]_vars

\* the batch of item k: batches are numbered from 0
BatchOf(k) == (k - 1) \div MAX_WORKERS

\* processInBatches has returned its results
BatchesReturned == pc \in {"ai-results", "ai-returned"} \/ (pc = "extracted" /\ Len(results) = Len(workers))

\* C22: in processInBatches no worker of a batch is started before every worker
\* of the preceding batch has settled, so at most batchSize workers are in flight;
\* the results returned have the length and the order of the items, whatever the
\* order in which the workers completed.
C22_Batches ==
    /\ Cardinality(InFlight) <= MAX_WORKERS
    /\ \A j, k \in 1..Len(workers) :
           (workers[k].state # "idle" /\ BatchOf(j) < BatchOf(k)) => j \in SettledWorkers
    /\ (reply.op = "extractHSCodesWithAI" /\ BatchesReturned) =>
           /\ Len(results) = Len(AiChunks(pdfText))
           /\ \A k \in 1..Len(results) :
                  /\ workers[k].item = AiChunks(pdfText)[k]
                  /\ results[k] = workers[k].value

\* two batches were returned; in the first, the worker of the second item
\* settled before the worker of the first, with another result
C22_Witness ==
    /\ pc = "ai-results"
    /\ Len(workers) > MAX_WORKERS
    /\ workers[2].at < workers[1].at
    /\ workers[2].value # workers[1].value
    /\ workers[1].value # EmptyResult

\* extractHSCodes has returned
RegexDone == pc \notin {"loop"}

\* the fallback extraction was run
FallbackRan == reply.op = "extractHSCodesWithAI"

\* a failure inside the fallback: the collaborator threw, the reply did not
\* parse, or a worker failed
FailedWorkers == {k \in 1..Len(workers) : workers[k].outcome \in {"collaborator-error", "unparsable-reply", "worker-failed"}}

RejectedWorkers == {k \in 1..Len(workers) : workers[k].state = "rejected"}

\* the fallback runs exactly when the structural extraction found no match, and
\* nothing it does is thrown to the caller of generatePdfEmbeddings
FallbackWhenNoMatch ==
    /\ FallbackRan => RegexDone /\ triples = <<>> /\ deployment = "usa"
    /\ (pc \in {"extracted", "returned"}) => (FallbackRan <=> triples = <<>>)
    /\ pc # "threw"

\* C21 (as stated): in usa.js the fallback extraction runs exactly when the
\* structural extraction finds zero matches, and any failure inside the fallback
\* makes generatePdfEmbeddings continue with an empty registry and term index;
\* it is never surfaced as an error.
C21_FailureGivesEmpty ==
    /\ FallbackWhenNoMatch
    /\ (pc = "extracted" /\ FallbackRan /\ FailedWorkers # {}) =>
           hsCodesData = <<>> /\ itemToHsMap = <<>>

\* C21 (amended): the fallback runs exactly when the structural extraction finds
\* zero matches and is never surfaced as an error; a failed worker (rejected
\* promise) makes generatePdfEmbeddings continue with an empty registry and term
\* index, while a chunk whose collaborator call fails or whose reply does not
\* parse contributes nothing and the results of the other chunks are kept.
C21_FailedChunkContributesNothing ==
    /\ FallbackWhenNoMatch
    /\ (pc = "extracted" /\ FallbackRan) =>
           IF RejectedWorkers # {}
           THEN hsCodesData = <<>> /\ itemToHsMap = <<>>
           ELSE /\ Len(results) = Len(workers)
                /\ \A k \in FailedWorkers : results[k] = EmptyResult
                /\ hsCodesData = MergeResults(results).hsCodesData
                /\ itemToHsMap = MergeResults(results).itemToHsMap
                /\ Pairs(hsCodesData)
                       = Pairs(MergeResults(SelectSeq(results, LAMBDA r : r # EmptyResult)).hsCodesData)

\* the collaborator call of one chunk failed and the registry holds what the
\* other chunk gave
C21_Witness ==
    /\ pc = "extracted"
    /\ FallbackRan
    /\ \E k \in FailedWorkers : workers[k].outcome = "collaborator-error"
    /\ RejectedWorkers = {}
    /\ hsCodesData # <<>>

\* a worker failed after the results of an earlier batch were in: the registry
\* is empty
C21_WitnessRejected ==
    /\ pc = "extracted"
    /\ FallbackRan
    /\ RejectedWorkers # {}
    /\ \E k \in 1..Len(results) : results[k] # EmptyResult
    /\ hsCodesData = <<>>

\* every code the term index maps a term to is a key of the registry
ValuesAreKeys(index, registry) == \A i \in 1..Len(index) : ObjHas(registry, index[i].v)

\* C25: in every snapshot produced by extraction (the structural extraction or
\* the merged fallback), every code that is a value of the term index is a key
\* of the registry.
C25_TermCodesInRegistry ==
    /\ ValuesAreKeys(itemToHsMap, hsCodesData)
    /\ \A k \in 1..Len(results) : ValuesAreKeys(results[k].itemToHsMap, results[k].hsCodesData)

\* a merged snapshot of two codes in which a term of one chunk was taken over by
\* the code of a later chunk
C25_Witness ==
    /\ pc = "extracted"
    /\ FallbackRan
    /\ Len(hsCodesData) >= 2
    /\ \E j, k \in 1..Len(results) :
           /\ j < k
           /\ \E i \in 1..Len(results[j].itemToHsMap) :
                  /\ ObjHas(results[k].itemToHsMap, results[j].itemToHsMap[i].k)
                  /\ ObjGet(itemToHsMap, results[j].itemToHsMap[i].k) # results[j].itemToHsMap[i].v

\* a snapshot of the structural extraction with two matches
C25_WitnessStructural ==
    /\ pc = "extracted"
    /\ ~FallbackRan
    /\ Len(triples) >= 2
    /\ Len(itemToHsMap) >= 2

(***************************************************************************)
(* cosineSimilarity                                                        *)
(***************************************************************************)
\* the length of the vectors compared
VectorDim == 2

\* the components of a vector: -MaxComponent..MaxComponent
MaxComponent == 1

\* for (let i = 0; i < vecA.length; i++) sum += x[i] * y[i]
RECURSIVE SumProducts(_, _)
SumProducts(x, y) ==
    IF x = <<>> THEN 0 ELSE Head(x) * Head(y) + SumProducts(Tail(x), Tail(y))

\* dotProduct / (normA * normB), where normA and normB are the square roots of
\* normA2 and normB2: NaN for 0 / 0, and otherwise the number that the three
\* integers determine
Quotient(dotProduct, normA2, normB2) ==
    IF normA2 * normB2 = 0 /\ dotProduct = 0 THEN NaN
    ELSE [nan |-> FALSE, value |-> <<dotProduct, normA2, normB2>>]

\* cosineSimilarity(vecA, vecB)
CosineSimilarity(vecA, vecB) ==
    Quotient(SumProducts(vecA, vecB), SumProducts(vecA, vecA), SumProducts(vecB, vecB))

Vectors == [1..VectorDim -> (0 - MaxComponent)..MaxComponent]

InitSimilarity ==
    /\ deployment \in Deployments
    /\ pdfText = <<>>
    /\ lastIndex = 0
    /\ pc = "similarity"
    /\ hsCodesData = <<>>
    /\ itemToHsMap = <<>>
    /\ triples = <<>>
    /\ \E vecA, vecB \in Vectors :
           reply = [op |-> "cosineSimilarity", arg |-> <<vecA, vecB>>, env |-> Null, ret |-> Null]
    /\ textChunks = <<>>
    /\ ServerOff

\* a call of cosineSimilarity
Similarity ==
    /\ pc = "similarity"
    /\ reply' = [reply EXCEPT !.ret = CosineSimilarity(reply.arg[1], reply.arg[2])]
    /\ pc' = "similarity-returned"
    /\ UNCHANGED <<deployment, pdfText, lastIndex, hsCodesData, itemToHsMap, triples, textChunks, serverVars, results, workers>>

NextSimilarity == Similarity

SpecSimilarity == InitSimilarity /\ [][NextSimilarity]_vars

ZeroMagnitude(vec) == \A i \in 1..Len(vec) : vec[i] = 0

\* C24: cosineSimilarity guards the zero-magnitude case: when either vector has
\* zero magnitude it returns a defined number (or a signalled error value), not
\* the result of a division by zero.
C24_ZeroMagnitudeGuarded ==
    (pc = "similarity-returned" /\ (ZeroMagnitude(reply.arg[1]) \/ ZeroMagnitude(reply.arg[2])))
        => ~reply.ret.nan

\* with vectors of magnitude other than zero the result is a number
C24_NumberOtherwise ==
    (pc = "similarity-returned" /\ ~ZeroMagnitude(reply.arg[1]) /\ ~ZeroMagnitude(reply.arg[2]))
        => ~reply.ret.nan

\* the passage vector is zero, the query vector is not, and the result is NaN
C24_ZeroPassageVector ==
    /\ pc = "similarity-returned"
    /\ ~ZeroMagnitude(reply.arg[1])
    /\ ZeroMagnitude(reply.arg[2])
    /\ reply.ret = NaN

====
